---- MODULE Spec2Model ----
(***************************************************************************)
(* Model of the OpenTelemetry emission core of vscode-copilot-chat:        *)
(* NodeOTelService (asynchronous initialization, pre-initialization        *)
(* buffer, chunked drain, span handles, flush and shutdown) and            *)
(* NoopOTelService.  The backend (OTel SDK) is modelled by the log         *)
(* `applied` of the calls that reach it.                                   *)
(***************************************************************************)
EXTENDS Integers, Sequences, FiniteSets, TLC

VARIABLES
    impl,           \* which IOTelService implementation was constructed
    enabled,        \* config.enabled
    initPc,         \* position of NodeOTelService._initialize
    tracer,         \* this._tracer is set
    meter,          \* this._meter is set
    logger,         \* this._logger is set
    spanProcessor,  \* this._spanProcessor is set
    logProcessor,   \* this._logProcessor is set
    metricReader,   \* this._metricReader is set
    initialized,    \* this._initialized
    initFailed,     \* this._initFailed
    buffer,         \* this._buffer: the deferred actions, in push order
    batch,          \* the local `batch` of _initialize (buffer.splice(0))
    drainI,         \* the loop variable i of the drain
    histograms,     \* keys of this._histograms
    counters,       \* keys of this._counters
    handles,        \* every BufferedSpanHandle / RealSpanHandle handed out
    acts,           \* the startActiveSpan invocations
    applied,        \* backend: the calls that reached the OTel SDK, in order
    created,        \* backend: instruments created by the meter, in order
    flushed,        \* backend: processors whose forceFlush() was called
    apiDisabled,    \* backend: api.trace/metrics/logs.disable() was called
    flushResult,    \* how the last flush() promise settled
    inflight,       \* the flush() and shutdown() calls that have not settled
    shutdownResult, \* how the last shutdown() promise settled
    shutdownCaught, \* the catch block of shutdown() has run
    clock,          \* number of calls issued so far; a call's id is its rank
    issued,         \* history: the emission calls, in call order
    nHandleOps,     \* span-handle calls issued so far
    throws,         \* backend: ids of the calls on which the OTel SDK throws
    diag,           \* the DiagnosticSpanExporter, its inner exporter and console
    input,          \* the OTelConfigInput handed to resolveOTelConfig
    resolved,       \* <<>>, or the OTelConfig resolveOTelConfig returned
    loaded,         \* the modules that a dynamic import() has loaded
    exporters,      \* <<>>, or the ExporterSet _createExporters returned
    fsink,          \* the file exporters, their write streams and the file
    events          \* the emitInferenceDetailsEvent calls and what they emitted

vars == <<impl, enabled, initPc, tracer, meter, logger, spanProcessor,
          logProcessor, metricReader, initialized, initFailed, buffer, batch,
          drainI, histograms, counters, handles, acts, applied, created,
          flushed, apiDisabled, flushResult, inflight, shutdownResult, shutdownCaught,
          clock, issued, nHandleOps, throws, diag, input, resolved, loaded,
          exporters, fsink, events>>

(* the variables of the emission core *)
coreVars == <<impl, enabled, initPc, tracer, meter, logger, spanProcessor,
              logProcessor, metricReader, initialized, initFailed, buffer, batch,
              drainI, histograms, counters, handles, acts, applied, created,
              flushed, apiDisabled, flushResult, inflight, shutdownResult, shutdownCaught,
              clock, issued, nHandleOps, throws, loaded, exporters>>

(***************************************************************************)
(* Program constants, scaled down so that TLC can fill the buffer and run  *)
(* a drain of several chunks.  The source has 1000 and 50; every guard     *)
(* and the chunk arithmetic below use them exactly as the source does.     *)
(***************************************************************************)
MAX_BUFFER_SIZE == 3
BATCH_SIZE == 2

(* Bounds of the model *)
MaxOps == 4
MaxHandleOps == 2
MaxActive == 1
MaxExports == 3
MaxForwards == 2
MaxAttrLen == 7
MaxWrites == 2
MaxPartial == 1
MaxEvents == 2
MaxSpans == 3
MaxInflight == 2
MaxDisabledOps == 3

Names == {"a"}
SpanOps == {"setAttribute", "setAttributes", "setStatus", "recordException", "end"}
(* the arguments of setAttributes: the values of the own keys of the
   record, in key order; <<>> is undefined, <<"v">> a value *)
AttrArgs == {<<>>, << <<>> >>, << <<"v">> >>, << <<"v">>, <<"v">> >>,
             << <<>>, <<"v">> >>}
(* the other methods take no record *)
NoAttrs == <<>>
ArgsOf(op) == IF op = "setAttributes" THEN AttrArgs ELSE {NoAttrs}
Outcomes == {"resolve", "reject"}
ExporterTypes == {"otlp-http"}
Batches == {<<"s1">>, <<"s1", "s2">>}
(* ExportResult: code 0 is ExportResultCode.SUCCESS; error "none" is an
   absent error *)
Results == {[code |-> 0, error |-> "none"], [code |-> 1, error |-> "none"],
            [code |-> 1, error |-> "timeout"]}

----------------------------------------------------------------------------
(* The fields the synchronous code paths read and write, as one record.    *)
World ==
    [tracer |-> tracer, meter |-> meter, logger |-> logger,
     initFailed |-> initFailed, buffer |-> buffer, histograms |-> histograms,
     counters |-> counters, handles |-> handles, applied |-> applied,
     created |-> created, throws |-> throws, ret |-> 0, threw |-> FALSE]

SetWorld(w) ==
    /\ tracer' = w.tracer
    /\ meter' = w.meter
    /\ logger' = w.logger
    /\ initFailed' = w.initFailed
    /\ buffer' = w.buffer
    /\ histograms' = w.histograms
    /\ counters' = w.counters
    /\ handles' = w.handles
    /\ applied' = w.applied
    /\ created' = w.created

Ev(id, ev, span, name) == [id |-> id, ev |-> ev, span |-> span, name |-> name]

(* One call on an object of the OTel SDK.  The SDK either performs it or
   throws; a throw leaves the method that made the call (threw). *)
sdkCall(w, id, ev, span, name) ==
    IF id \in w.throws
    THEN [w EXCEPT !.applied = Append(@, Ev(id, "throw", span, name)), !.threw = TRUE]
    ELSE [w EXCEPT !.applied = Append(@, Ev(id, ev, span, name))]
BufOp(id, kind, name, h) == [id |-> id, kind |-> kind, name |-> name, h |-> h]

(* RealSpanHandle.setAttributes: for (const k in attrs) if (v !== undefined)
   this._span.setAttribute(k, v).  A throw of the SDK leaves the loop. *)
RECURSIVE RealSpanHandle_setAttributes(_, _, _, _)
RealSpanHandle_setAttributes(w, span, id, attrs) ==
    IF attrs = <<>> \/ w.threw THEN w
    ELSE RealSpanHandle_setAttributes(
            IF Head(attrs) # <<>> THEN sdkCall(w, id, "setAttributes", span, "") ELSE w,
            span, id, Tail(attrs))

(* RealSpanHandle: setAttribute, setStatus, recordException and end make
   one call on the span they wrap, setAttributes one per defined value. *)
RealSpanHandle_call(w, span, id, op, attrs) ==
    IF op = "setAttributes" THEN RealSpanHandle_setAttributes(w, span, id, attrs)
    ELSE sdkCall(w, id, op, span, "")

(* NodeOTelService._createSpan: this._tracer!.startSpan(...).  The span is
   named by the id of the startSpan call that asked for it. *)
createSpan(w, id) == sdkCall(w, id, "startSpan", id, "")

(* A span handle handed to a caller: a BufferedSpanHandle (real = 0 until
   replay binds it) or a RealSpanHandle (real = its span). *)
NewHandle(w, kind, real) ==
    [w EXCEPT !.handles = Append(@, [kind |-> kind, ops |-> <<>>, real |-> real]),
              !.ret = Len(w.handles) + 1]

(* BufferedSpanHandle.setAttribute / setAttributes / setStatus /
   recordException / end: forward when bound, queue otherwise. *)
BufferedSpanHandle_call(w, h, id, op, attrs) ==
    IF w.handles[h].real # 0
    THEN RealSpanHandle_call(w, w.handles[h].real, id, op, attrs)
    ELSE [w EXCEPT !.handles[h].ops = Append(@, [id |-> id, op |-> op, attrs |-> attrs])]

RECURSIVE ReplayOps(_, _, _)
ReplayOps(w, span, ops) ==
    IF ops = <<>> \/ w.threw THEN w
    ELSE ReplayOps(RealSpanHandle_call(w, span, Head(ops).id, Head(ops).op, Head(ops).attrs),
                   span, Tail(ops))

(* a replay that applies the queue latest call first *)
BufferedSpanHandle_replay_reversed(w, h, span) ==
    LET bound == [w EXCEPT !.handles[h].real = span]
        ops == w.handles[h].ops
        played == ReplayOps(bound, span, [k \in 1..Len(ops) |-> ops[Len(ops) + 1 - k]])
    IN  IF played.threw THEN played
        ELSE [played EXCEPT !.handles[h].ops = <<>>]

(* BufferedSpanHandle.replay: this._real = real; for (op of this._ops)
   op(real); this._ops.length = 0.  An op that throws leaves the loop and
   the method, with _real assigned and _ops as it was. *)
BufferedSpanHandle_replay(w, h, span) ==
    LET bound == [w EXCEPT !.handles[h].real = span]
        played == ReplayOps(bound, span, w.handles[h].ops)
    IN  IF played.threw THEN played
        ELSE [played EXCEPT !.handles[h].ops = <<>>]

----------------------------------------------------------------------------
(* NodeOTelService: the synchronous emission calls.  ret is the handle
   returned by startSpan: 0 is the shared noopSpanHandle. *)
startSpan(w, id) ==
    IF ~w.tracer
    THEN IF w.initFailed \/ Len(w.buffer) >= MAX_BUFFER_SIZE
         THEN [w EXCEPT !.ret = 0]
         ELSE LET nw == NewHandle(w, "buffered", 0)
              IN  [nw EXCEPT !.buffer = Append(@, BufOp(id, "span", "", nw.ret))]
    ELSE LET c == createSpan(w, id)
         IN  IF c.threw THEN c ELSE NewHandle(c, "real", id)

(* recordMetric with the capacity test off by one (<= for <) *)
recordMetric_offByOne(w, id, name) ==
    IF ~w.meter
    THEN IF ~w.initFailed /\ Len(w.buffer) <= MAX_BUFFER_SIZE
         THEN [w EXCEPT !.buffer = Append(@, BufOp(id, "metric", name, 0))]
         ELSE w
    ELSE [w EXCEPT !.applied = Append(@, Ev(id, "record", 0, name))]

recordMetric(w, id, name) ==
    IF ~w.meter
    THEN IF ~w.initFailed /\ Len(w.buffer) < MAX_BUFFER_SIZE
         THEN [w EXCEPT !.buffer = Append(@, BufOp(id, "metric", name, 0))]
         ELSE w
    ELSE LET got == IF name \in w.histograms THEN w
                    ELSE [w EXCEPT !.created = Append(@, [name |-> name, kind |-> "histogram"]),
                                   !.histograms = @ \cup {name}]
         IN  sdkCall(got, id, "record", 0, name)

incrementCounter(w, id, name) ==
    IF ~w.meter
    THEN IF ~w.initFailed /\ Len(w.buffer) < MAX_BUFFER_SIZE
         THEN [w EXCEPT !.buffer = Append(@, BufOp(id, "counter", name, 0))]
         ELSE w
    ELSE LET got == IF name \in w.counters THEN w
                    ELSE [w EXCEPT !.created = Append(@, [name |-> name, kind |-> "counter"]),
                                   !.counters = @ \cup {name}]
         IN  sdkCall(got, id, "add", 0, name)

emitLogRecord(w, id) ==
    IF ~w.logger
    THEN IF ~w.initFailed /\ Len(w.buffer) < MAX_BUFFER_SIZE
         THEN [w EXCEPT !.buffer = Append(@, BufOp(id, "log", "", 0))]
         ELSE w
    ELSE sdkCall(w, id, "emit", 0, "")

(* The body of one buffered closure.  The span closure dereferences
   this._tracer!, which throws when the tracer is missing; the other
   closures call the method that queued them again. *)
bufferedFn(w, b) ==
    CASE b.kind = "span" ->
            IF ~w.tracer THEN [w EXCEPT !.threw = TRUE]
            ELSE LET c == createSpan(w, b.id)
                 IN  IF c.threw THEN c
                     ELSE BufferedSpanHandle_replay(c, b.h, b.id)
      [] b.kind = "metric" -> recordMetric(w, b.id, b.name)
      [] b.kind = "counter" -> incrementCounter(w, b.id, b.name)
      [] b.kind = "log" -> emitLogRecord(w, b.id)

(* One buffered closure, as the drain invokes it: try { fn(); } catch { } *)
RunBuffered(w, b) == [bufferedFn(w, b) EXCEPT !.threw = FALSE]

(* a drain without the try/catch around fn(): the first closure that
   throws leaves the loop for the catch block of _initialize *)
RECURSIVE RunChunk_noCatch(_, _)
RunChunk_noCatch(w, chunk) ==
    IF chunk = <<>> THEN w
    ELSE LET r == bufferedFn(w, Head(chunk))
         IN  IF r.threw
             THEN [r EXCEPT !.threw = FALSE, !.initFailed = TRUE, !.buffer = <<>>]
             ELSE RunChunk_noCatch(r, Tail(chunk))

(* a drain that takes the closures of a chunk from the end (pop) *)
RECURSIVE RunChunk_lifo(_, _)
RunChunk_lifo(w, chunk) ==
    IF chunk = <<>> THEN w
    ELSE RunChunk_lifo(RunBuffered(w, chunk[Len(chunk)]), SubSeq(chunk, 1, Len(chunk) - 1))

RECURSIVE RunChunk(_, _)
RunChunk(w, chunk) ==
    IF chunk = <<>> THEN w
    ELSE RunChunk(RunBuffered(w, Head(chunk)), Tail(chunk))

Min(a, b) == IF a < b THEN a ELSE b

(* a drain that runs the first chunk only *)
Chunk_firstOnly(b, i) == IF i = 0 THEN SubSeq(b, 1, Min(BATCH_SIZE, Len(b))) ELSE <<>>

(* a chunk that reaches one closure into the next chunk *)
Chunk_overlapping(b, i) == SubSeq(b, i + 1, Min(i + BATCH_SIZE + 1, Len(b)))

(* batch.slice(i, i + BATCH_SIZE) *)
Chunk(b, i) == SubSeq(b, i + 1, Min(i + BATCH_SIZE, Len(b)))

----------------------------------------------------------------------------
(* otelConfig.ts.  An optional value is <<>> (undefined) or <<v>>.  The
   strings the code takes apart are sequences: an endpoint is a sequence of
   URL tokens, OTEL_RESOURCE_ATTRIBUTES a sequence of characters; the
   strings it only compares or passes on are strings. *)

Undefined == <<>>
Some(v) == <<v>>

(* a ?? b *)
Coalesce(a, b) == IF a # Undefined THEN a ELSE b

(* truthiness of an optional string / of an optional sequence-string *)
Truthy(o) == o # Undefined /\ o[1] # ""
TruthySeq(o) == o # Undefined /\ o[1] # <<>>

(* an envBool that takes every non-empty value for true *)
envBool_truthy(val) ==
    IF val = Undefined THEN Undefined
    ELSE Some(val[1] # "")

envBool(val) ==
    IF val = Undefined THEN Undefined
    ELSE Some(val[1] = "true" \/ val[1] = "1")

Quotes == {"\"", "'"}
Schemes == {"http://", "https://"}
Hosts == {"collector", "localhost"}
Ports == {":4317", ":4318", ":80"}
Paths == {"/", "/v1/traces"}

(* raw.replace(/^["']|["']$/g, '') *)
stripQuotes(s) ==
    LET a == IF s # <<>> /\ Head(s) \in Quotes THEN Tail(s) ELSE s
    IN  IF a # <<>> /\ a[Len(a)] \in Quotes THEN SubSeq(a, 1, Len(a) - 1) ELSE a

(* new URL(s), s a sequence of tokens read as the string they spell.  The
   tokens are split into atoms (runs of letters and digits, ":" and "/") and
   parsed as the URL parser does.  The scheme is the run of letters and
   digits before the first ":"; without one the constructor throws
   (Undefined).  After http: or https: every "/" is skipped, the authority
   runs to the next "/", its host must not be empty, a port is digits only
   and the default port of the scheme is dropped, an absent path is "/" and
   the origin is scheme, host and port.  Any other scheme has the opaque
   origin "null": after "//" comes an authority whose host may be empty
   when no port follows, otherwise the rest is kept as it stands.  A blank
   or a double quote in a hierarchical path is percent-encoded; a blank in
   a scheme, host or port throws. *)
URL(s) ==
    LET AlphaWords == {"http", "https", "collector", "localhost", "traces", "v1"}
        DigitWords == {"4317", "4318", "80"}
        SchemeChars == AlphaWords \cup DigitWords
        HostChars == SchemeChars \cup Quotes
        atomsOf(t) ==
            CASE t = "http://" -> <<"http", ":", "/", "/">>
              [] t = "https://" -> <<"https", ":", "/", "/">>
              [] t = ":4317" -> <<":", "4317">>
              [] t = ":4318" -> <<":", "4318">>
              [] t = ":80" -> <<":", "80">>
              [] t = "/v1/traces" -> <<"/", "v1", "/", "traces">>
              [] OTHER -> <<t>>
        portToken(d) ==
            CASE d = "4317" -> ":4317" [] d = "4318" -> ":4318" [] OTHER -> ":80"
        pathEncode(x) ==
            CASE x = "not a url" -> "not%20a%20url" [] x = "\"" -> "%22" [] OTHER -> x
        RECURSIVE atoms(_)
        atoms(t) == IF t = <<>> THEN <<>> ELSE atomsOf(Head(t)) \o atoms(Tail(t))
        RECURSIVE tokens(_)
        tokens(a) ==
            IF a = <<>> THEN <<>>
            ELSE IF Len(a) >= 4 /\ SubSeq(a, 1, 4) = <<"http", ":", "/", "/">>
            THEN <<"http://">> \o tokens(SubSeq(a, 5, Len(a)))
            ELSE IF Len(a) >= 4 /\ SubSeq(a, 1, 4) = <<"https", ":", "/", "/">>
            THEN <<"https://">> \o tokens(SubSeq(a, 5, Len(a)))
            ELSE IF Len(a) >= 4 /\ SubSeq(a, 1, 4) = <<"/", "v1", "/", "traces">>
            THEN <<"/v1/traces">> \o tokens(SubSeq(a, 5, Len(a)))
            ELSE IF Len(a) >= 2 /\ a[1] = ":" /\ a[2] \in DigitWords
            THEN <<portToken(a[2])>> \o tokens(SubSeq(a, 3, Len(a)))
            ELSE <<a[1]>> \o tokens(Tail(a))
        run(a, chars) ==
            CHOOSE n \in 0..Len(a) : /\ \A i \in 1..n : a[i] \in chars
                                     /\ n = Len(a) \/ a[n + 1] \notin chars
        from(a, k) == SubSeq(a, k, Len(a))
        encoded(path) == [i \in 1..Len(path) |-> pathEncode(path[i])]
        a == atoms(s)
        n == run(a, SchemeChars)
        scheme == SubSeq(a, 1, n)
        special == scheme \in {<<"http">>, <<"https">>}
        afterScheme == from(a, n + 2)
        slashes == run(afterScheme, {"/"})
        body == IF special THEN from(afterScheme, slashes + 1)
                ELSE from(afterScheme, 3)
        authorityLen == run(body, {body[i] : i \in 1..Len(body)} \ {"/"})
        authority == SubSeq(body, 1, authorityLen)
        path == from(body, authorityLen + 1)
        hostLen == run(authority, HostChars)
        host == SubSeq(authority, 1, hostLen)
        afterHost == from(authority, hostLen + 1)
        port == IF afterHost = <<>> THEN <<>> ELSE Tail(afterHost)
        defaultPort == IF scheme = <<"http">> THEN <<"80">>
                       ELSE IF scheme = <<"https">> THEN <<"443">> ELSE <<"none">>
        portPart == IF port = <<>> \/ port = defaultPort THEN <<>> ELSE <<":">> \o port
        authorityOk ==
            /\ afterHost # <<>> => afterHost[1] = ":" /\ host # <<>>
            /\ port = <<>> \/ (Len(port) = 1 /\ port[1] \in DigitWords)
            /\ special => host # <<>>
        origin == scheme \o <<":", "/", "/">> \o host \o portPart
    IN  IF n = 0 \/ a[1] \notin AlphaWords \/ n = Len(a) \/ a[n + 1] # ":"
        THEN Undefined
        ELSE IF special
        THEN IF ~authorityOk THEN Undefined
             ELSE Some([origin |-> tokens(origin),
                        href |-> tokens(origin \o (IF path = <<>> THEN <<"/">>
                                                   ELSE encoded(path)))])
        ELSE IF slashes >= 2
        THEN IF ~authorityOk THEN Undefined
             ELSE Some([origin |-> <<"null">>,
                        href |-> tokens(origin \o encoded(path))])
        ELSE IF slashes = 1
        THEN Some([origin |-> <<"null">>,
                   href |-> tokens(scheme \o <<":">> \o encoded(afterScheme))])
        ELSE Some([origin |-> <<"null">>, href |-> tokens(a)])

parseOtlpEndpoint(raw, protocol) ==
    IF ~TruthySeq(raw) THEN Undefined
    ELSE LET url == URL(stripQuotes(raw[1]))
         IN  IF url = Undefined THEN Undefined
             ELSE Some(IF protocol = "grpc" THEN url[1].origin ELSE url[1].href)

(* s.indexOf(c), counted from 1; 0 when c does not occur *)
RECURSIVE indexOf(_, _)
indexOf(s, c) ==
    IF s = <<>> THEN 0
    ELSE IF Head(s) = c THEN 1
    ELSE LET r == indexOf(Tail(s), c) IN IF r = 0 THEN 0 ELSE r + 1

(* s.split(c) *)
RECURSIVE split(_, _)
split(s, c) ==
    LET i == indexOf(s, c)
    IN  IF i = 0 THEN <<s>>
        ELSE <<SubSeq(s, 1, i - 1)>> \o split(SubSeq(s, i + 1, Len(s)), c)

(* the white space String.prototype.trim strips: tab, line feed, vertical
   tab, form feed, carriage return, blank and no-break space; the
   separators beyond Latin-1 are white space too and are not written here *)
WhiteSpace == {" ", "\t", "\n", "", "\f", "\r", " "}

(* s.trim() *)
RECURSIVE trim(_)
trim(s) ==
    IF s = <<>> THEN s
    ELSE IF Head(s) \in WhiteSpace THEN trim(Tail(s))
    ELSE IF s[Len(s)] \in WhiteSpace THEN trim(SubSeq(s, 1, Len(s) - 1))
    ELSE s

(* the key whose assignment on a plain object reaches the setter of
   Object.prototype, which ignores a string: result["__proto__"] = value
   adds no property *)
ProtoKey == <<"_", "_", "p", "r", "o", "t", "o", "_", "_">>

(* the loop of parseResourceAttributes over the pairs, result so far r *)
RECURSIVE parsePairs(_, _)
parsePairs(pairs, r) ==
    IF pairs = <<>> THEN r
    ELSE LET pair == Head(pairs)
             eqIdx == indexOf(pair, "=")
             key == trim(SubSeq(pair, 1, eqIdx - 1))
             value == trim(SubSeq(pair, eqIdx + 1, Len(pair)))
         IN  IF eqIdx > 1 /\ key # <<>> /\ key # ProtoKey
             THEN parsePairs(Tail(pairs),
                             [k \in DOMAIN r \cup {key} |-> IF k = key THEN value ELSE r[k]])
             ELSE parsePairs(Tail(pairs), r)

(* the empty Record<string, string> *)
NoAttributes == [k \in {} |-> <<>>]

parseResourceAttributes(raw) ==
    IF ~TruthySeq(raw) THEN NoAttributes
    ELSE parsePairs(split(raw[1], ","), NoAttributes)

DefaultEndpoint == <<"http://", "localhost", ":4318">>

createDisabledConfig(in) ==
    [enabled |-> FALSE, exporterType |-> "otlp-http", otlpEndpoint |-> <<>>,
     otlpProtocol |-> "http", captureContent |-> FALSE,
     fileExporterPath |-> Undefined, logLevel |-> "info",
     httpInstrumentation |-> FALSE, serviceName |-> "copilot-chat",
     serviceVersion |-> in.extensionVersion, sessionId |-> in.sessionId,
     resourceAttributes |-> NoAttributes]

(* an exporter type that lets the exporter-type setting win over the path *)
exporterTypeOf_settingFirst(fileExporterPath, settingExporterType, protocol) ==
    IF Truthy(settingExporterType) THEN settingExporterType[1]
    ELSE IF Truthy(fileExporterPath) THEN "file"
    ELSE IF protocol = "grpc" THEN "otlp-grpc" ELSE "otlp-http"

(* resolveOTelConfig, "Exporter type": if (fileExporterPath) ... else if
   (input.settingExporterType) ... else ... *)
exporterTypeOf(fileExporterPath, settingExporterType, protocol) ==
    IF Truthy(fileExporterPath) THEN "file"
    ELSE IF Truthy(settingExporterType) THEN settingExporterType[1]
    ELSE IF protocol = "grpc" THEN "otlp-grpc" ELSE "otlp-http"

(* resolveOTelConfig without the kill switch *)
resolveOTelConfig_noKillSwitch(in) ==
    IF Coalesce(envBool(in.env.COPILOT_OTEL_ENABLED), Some(FALSE))[1]
    THEN [createDisabledConfig(in) EXCEPT !.enabled = TRUE]
    ELSE createDisabledConfig(in)

(* resolveOTelConfig with the host setting consulted before the override *)
resolveOTelConfig_settingFirst(in) ==
    IF in.vscodeTelemetryLevel = Some("off") THEN createDisabledConfig(in)
    ELSE IF Coalesce(in.settingEnabled,
                     Coalesce(envBool(in.env.COPILOT_OTEL_ENABLED),
                              Some(TruthySeq(in.env.OTEL_EXPORTER_OTLP_ENDPOINT))))[1]
         THEN [createDisabledConfig(in) EXCEPT !.enabled = TRUE]
         ELSE createDisabledConfig(in)

resolveOTelConfig(in) ==
    LET env == in.env
        enabled_ == Coalesce(envBool(env.COPILOT_OTEL_ENABLED),
                             Coalesce(in.settingEnabled,
                                      Some(TruthySeq(env.OTEL_EXPORTER_OTLP_ENDPOINT))))[1]
        rawProtocol == Coalesce(env.OTEL_EXPORTER_OTLP_PROTOCOL, env.COPILOT_OTEL_PROTOCOL)
        protocol == IF rawProtocol = Some("grpc") THEN "grpc" ELSE "http"
        rawEndpoint == Coalesce(env.COPILOT_OTEL_ENDPOINT,
                                Coalesce(env.OTEL_EXPORTER_OTLP_ENDPOINT,
                                         Coalesce(in.settingOtlpEndpoint, Some(DefaultEndpoint))))
        otlpEndpoint == Coalesce(parseOtlpEndpoint(rawEndpoint, protocol), Some(DefaultEndpoint))[1]
        fileExporterPath == Coalesce(env.COPILOT_OTEL_FILE_EXPORTER_PATH, in.settingOutfile)
        exporterType == exporterTypeOf(fileExporterPath, in.settingExporterType, protocol)
        captureContent == Coalesce(envBool(env.COPILOT_OTEL_CAPTURE_CONTENT),
                                   Coalesce(in.settingCaptureContent, Some(FALSE)))[1]
        logLevel == Coalesce(env.COPILOT_OTEL_LOG_LEVEL, Some("info"))[1]
        httpInstrumentation == Coalesce(envBool(env.COPILOT_OTEL_HTTP_INSTRUMENTATION), Some(FALSE))[1]
        serviceName == Coalesce(env.OTEL_SERVICE_NAME, Some("copilot-chat"))[1]
        resourceAttributes == parseResourceAttributes(env.OTEL_RESOURCE_ATTRIBUTES)
    IN  IF in.vscodeTelemetryLevel = Some("off") THEN createDisabledConfig(in)
        ELSE IF ~enabled_ THEN createDisabledConfig(in)
        ELSE [enabled |-> TRUE, exporterType |-> exporterType,
              otlpEndpoint |-> otlpEndpoint, otlpProtocol |-> protocol,
              captureContent |-> captureContent,
              fileExporterPath |-> fileExporterPath, logLevel |-> logLevel,
              httpInstrumentation |-> httpInstrumentation,
              serviceName |-> serviceName,
              serviceVersion |-> in.extensionVersion, sessionId |-> in.sessionId,
              resourceAttributes |-> resourceAttributes]

(* an input with nothing set, as the tests build it *)
makeInput ==
    [env |-> [COPILOT_OTEL_ENABLED |-> Undefined,
              OTEL_EXPORTER_OTLP_ENDPOINT |-> Undefined,
              OTEL_EXPORTER_OTLP_PROTOCOL |-> Undefined,
              COPILOT_OTEL_PROTOCOL |-> Undefined,
              COPILOT_OTEL_ENDPOINT |-> Undefined,
              COPILOT_OTEL_FILE_EXPORTER_PATH |-> Undefined,
              COPILOT_OTEL_CAPTURE_CONTENT |-> Undefined,
              COPILOT_OTEL_LOG_LEVEL |-> Undefined,
              COPILOT_OTEL_HTTP_INSTRUMENTATION |-> Undefined,
              OTEL_SERVICE_NAME |-> Undefined,
              OTEL_RESOURCE_ATTRIBUTES |-> Undefined],
     settingEnabled |-> Undefined, settingExporterType |-> Undefined,
     settingOtlpEndpoint |-> Undefined, settingCaptureContent |-> Undefined,
     settingOutfile |-> Undefined, extensionVersion |-> "1.0.0",
     sessionId |-> "test-session", vscodeTelemetryLevel |-> Undefined]

(* the extension resolves its configuration *)
Resolve ==
    /\ resolved = <<>>
    /\ resolved' = <<resolveOTelConfig(input)>>
    /\ UNCHANGED <<coreVars, diag, input, fsink, events>>

----------------------------------------------------------------------------
(* NodeOTelService._initialize *)

(* this.config: the configuration the service was constructed with; a run
   that resolves no configuration has the defaults and its own `enabled` *)
config ==
    IF resolved # <<>> THEN resolved[1]
    ELSE [createDisabledConfig(input) EXCEPT !.enabled = enabled]

(* the modules of the Promise.all of _initialize, and those of shutdown() *)
InitModules == {"@opentelemetry/api", "@opentelemetry/api-logs",
                "@opentelemetry/sdk-trace-node", "@opentelemetry/sdk-logs",
                "@opentelemetry/sdk-metrics", "@opentelemetry/resources"}
ShutdownModules == <<"@opentelemetry/api", "@opentelemetry/api-logs">>

(* what the imports of the modules ms have loaded when the failure of the
   step is handled: any of them when an import rejected, all of them when
   the statement after the imports threw *)
PartialLoads(ms) == SUBSET ms

(* an exporter object: the module and class it comes from and the argument
   of its constructor *)
Sink(mod, class, arg) == [module |-> mod, class |-> class, arg |-> arg]

(* NodeOTelService._createExporters *)
createExporters(c) ==
    IF c.exporterType = "file" /\ Truthy(c.fileExporterPath)
    THEN [spanExporter |-> Sink("./fileExporters", "FileSpanExporter", c.fileExporterPath),
          logExporter |-> Sink("./fileExporters", "FileLogExporter", c.fileExporterPath),
          metricExporter |-> Sink("./fileExporters", "FileMetricExporter", c.fileExporterPath)]
    ELSE IF c.exporterType = "console"
    THEN [spanExporter |-> Sink("@opentelemetry/sdk-trace-node", "ConsoleSpanExporter", Undefined),
          logExporter |-> Sink("@opentelemetry/sdk-logs", "ConsoleLogRecordExporter", Undefined),
          metricExporter |-> Sink("@opentelemetry/sdk-metrics", "ConsoleMetricExporter", Undefined)]
    ELSE IF c.exporterType = "otlp-grpc"
    THEN [spanExporter |-> Sink("@opentelemetry/exporter-trace-otlp-grpc", "OTLPTraceExporter", Some(c.otlpEndpoint)),
          logExporter |-> Sink("@opentelemetry/exporter-logs-otlp-grpc", "OTLPLogExporter", Some(c.otlpEndpoint)),
          metricExporter |-> Sink("@opentelemetry/exporter-metrics-otlp-grpc", "OTLPMetricExporter", Some(c.otlpEndpoint))]
    ELSE [spanExporter |-> Sink("@opentelemetry/exporter-trace-otlp-http", "OTLPTraceExporter", Some(c.otlpEndpoint)),
          logExporter |-> Sink("@opentelemetry/exporter-logs-otlp-http", "OTLPLogExporter", Some(c.otlpEndpoint)),
          metricExporter |-> Sink("@opentelemetry/exporter-metrics-otlp-http", "OTLPMetricExporter", Some(c.otlpEndpoint))]

(* the modules _createExporters imports for the exporter set it returns *)
ExporterModules(set) ==
    {set.spanExporter.module, set.logExporter.module, set.metricExporter.module}

(* _createExporters() resolved: its modules are loaded, its set is built *)
ExportersResolve ==
    /\ exporters' = Some(createExporters(config))
    /\ loaded' = loaded \cup ExporterModules(createExporters(config))

(* The statements of the try block that assign a field, in source order.
   A failure at step k leaves the fields of the steps before k assigned. *)
InitSteps == <<"spanProcessor", "tracer", "logProcessor", "logger", "metricReader", "meter">>
StepDone(failAt, step) == \E k \in 1..(failAt - 1) : InitSteps[k] = step

(* a catch block that keeps the buffer *)
initializeCatch_keepsBuffer ==
    /\ initFailed' = TRUE
    /\ buffer' = buffer
    /\ initPc' = "failed"

(* catch (err): this._initFailed = true; this._buffer.length = 0 *)
initializeCatch ==
    /\ initFailed' = TRUE
    /\ buffer' = <<>>
    /\ initPc' = "failed"

(* await Promise.all([import(...)]) settles.  On success
   resourceFromAttributes() and _createExporters() run up to the dynamic
   import of the latter; an import that rejects, or resourceFromAttributes
   throwing, goes to the catch block. *)
ImportsSettle ==
    /\ initPc = "imports"
    /\ \E ok \in BOOLEAN :
          IF ok
          THEN /\ initPc' = "exporters"
               /\ loaded' = loaded \cup InitModules
               /\ UNCHANGED <<initFailed, buffer>>
          ELSE /\ initializeCatch
               /\ \E got \in PartialLoads(InitModules) : loaded' = loaded \cup got
    /\ UNCHANGED exporters
    /\ UNCHANGED <<impl, enabled, tracer, meter, logger, spanProcessor, logProcessor,
                   metricReader, initialized, batch, drainI, histograms, counters,
                   handles, acts, applied, created, flushed, apiDisabled,
                   flushResult, inflight, shutdownResult, shutdownCaught, clock, issued, nHandleOps,
                   throws, diag, input, resolved, fsink, events>>

(* the imports of _initialize resolve and resourceFromAttributes() returns *)
ImportsResolve == ImportsSettle /\ initPc' = "exporters"

(* await this._createExporters() rejects: an import of its modules
   rejected, or the constructor of an exporter threw *)
ExportersReject ==
    /\ initPc = "exporters"
    /\ initializeCatch
    /\ \E got \in PartialLoads(ExporterModules(createExporters(config))) :
          loaded' = loaded \cup got
    /\ UNCHANGED exporters
    /\ UNCHANGED <<impl, enabled, tracer, meter, logger, spanProcessor, logProcessor,
                   metricReader, initialized, batch, drainI, histograms, counters,
                   handles, acts, applied, created, flushed, apiDisabled,
                   flushResult, inflight, shutdownResult, shutdownCaught, clock, issued, nHandleOps,
                   throws, diag, input, resolved, fsink, events>>

(* await this._createExporters() resolves, and a statement of the provider
   construction throws: the fields assigned so far stay assigned. *)
ConstructThrows ==
    /\ initPc = "exporters"
    /\ \E failAt \in 1..Len(InitSteps) :
          /\ spanProcessor' = StepDone(failAt, "spanProcessor")
          /\ tracer' = StepDone(failAt, "tracer")
          /\ logProcessor' = StepDone(failAt, "logProcessor")
          /\ logger' = StepDone(failAt, "logger")
          /\ metricReader' = StepDone(failAt, "metricReader")
          /\ meter' = StepDone(failAt, "meter")
    /\ initializeCatch
    /\ ExportersResolve
    /\ UNCHANGED <<impl, enabled, initialized, batch, drainI, histograms, counters,
                   handles, acts, applied, created, flushed, apiDisabled,
                   flushResult, inflight, shutdownResult, shutdownCaught, clock, issued, nHandleOps,
                   throws, diag, input, resolved, fsink, events>>

(* One iteration of the drain loop at index i: run the chunk, then either
   yield (setTimeout 0) or leave the loop. *)
DrainStep(w, b, i) ==
    /\ SetWorld(RunChunk(w, Chunk(b, i)))
    /\ drainI' = i
    /\ initPc' = IF i + BATCH_SIZE < Len(b) THEN "yield" ELSE "done"

(* await this._createExporters() resolves and the providers are built:
   this._initialized = true; batch = this._buffer.splice(0); first chunk. *)
ConstructSucceeds ==
    /\ initPc = "exporters"
    /\ ExportersResolve
    /\ spanProcessor' = TRUE
    /\ logProcessor' = TRUE
    /\ metricReader' = TRUE
    /\ initialized' = TRUE
    /\ batch' = buffer
    /\ LET w == [World EXCEPT !.tracer = TRUE, !.logger = TRUE, !.meter = TRUE,
                              !.buffer = <<>>]
       IN  IF Len(buffer) > 0
           THEN DrainStep(w, buffer, 0)
           ELSE SetWorld(w) /\ drainI' = 0 /\ initPc' = "done"
    /\ UNCHANGED <<impl, enabled, acts, flushed, apiDisabled, flushResult, inflight,
                   shutdownResult, shutdownCaught, clock, issued, nHandleOps, throws,
                   diag, input, resolved, fsink, events>>

(* the setTimeout(resolve, 0) between two chunks fires: i += BATCH_SIZE *)
DrainResume ==
    /\ initPc = "yield"
    /\ DrainStep(World, batch, drainI + BATCH_SIZE)
    /\ UNCHANGED <<impl, enabled, spanProcessor, logProcessor, metricReader,
                   initialized, batch, acts, flushed, apiDisabled, flushResult, inflight,
                   shutdownResult, shutdownCaught, clock, issued, nHandleOps, throws,
                   diag, input, resolved, fsink, events, loaded, exporters>>

----------------------------------------------------------------------------
(* The callers: application code calling the IOTelService interface. *)

(* The history entry of an emission call: when it was made (pc), the handle
   it returned (ret) and what became of it, read off the world w it left. *)
Call(kind, name, w) ==
    [id |-> clock + 1, kind |-> kind, name |-> name, pc |-> initPc, ret |-> w.ret,
     outcome |-> IF w.threw THEN "threw"
                 ELSE IF Len(w.buffer) > Len(buffer) THEN "queued"
                 ELSE IF Len(w.applied) > Len(applied) THEN "applied"
                 ELSE "dropped"]

lifecycleFrame ==
    UNCHANGED <<impl, enabled, initPc, spanProcessor, logProcessor, metricReader,
                initialized, batch, drainI, flushed, apiDisabled, flushResult, inflight,
                shutdownResult, shutdownCaught, throws, diag, input, resolved, fsink, events, loaded, exporters>>

StartSpan ==
    /\ impl = "Node"
    /\ Len(issued) < MaxOps
    /\ LET w == startSpan(World, clock + 1)
       IN  /\ SetWorld(w)
           /\ issued' = Append(issued, Call("span", "", w))
    /\ clock' = clock + 1
    /\ lifecycleFrame
    /\ UNCHANGED <<acts, nHandleOps>>

RecordMetric ==
    /\ impl = "Node"
    /\ Len(issued) < MaxOps
    /\ \E name \in Names :
          LET w == recordMetric(World, clock + 1, name)
          IN  /\ SetWorld(w)
              /\ issued' = Append(issued, Call("metric", name, w))
    /\ clock' = clock + 1
    /\ lifecycleFrame
    /\ UNCHANGED <<acts, nHandleOps>>

IncrementCounter ==
    /\ impl = "Node"
    /\ Len(issued) < MaxOps
    /\ \E name \in Names :
          LET w == incrementCounter(World, clock + 1, name)
          IN  /\ SetWorld(w)
              /\ issued' = Append(issued, Call("counter", name, w))
    /\ clock' = clock + 1
    /\ lifecycleFrame
    /\ UNCHANGED <<acts, nHandleOps>>

EmitLogRecord ==
    /\ impl = "Node"
    /\ Len(issued) < MaxOps
    /\ LET w == emitLogRecord(World, clock + 1)
       IN  /\ SetWorld(w)
           /\ issued' = Append(issued, Call("log", "", w))
    /\ clock' = clock + 1
    /\ lifecycleFrame
    /\ UNCHANGED <<acts, nHandleOps>>

(* A method of a span handle the caller holds.  Handle 0, the shared no-op
   handle, accepts and discards every call. *)
SpanHandle_call(w, h, id, op, attrs) ==
    IF h = 0 THEN w
    ELSE IF w.handles[h].kind = "real"
         THEN RealSpanHandle_call(w, w.handles[h].real, id, op, attrs)
         ELSE BufferedSpanHandle_call(w, h, id, op, attrs)

HandleCall ==
    /\ nHandleOps < MaxHandleOps
    /\ \E h \in 0..Len(handles), op \in SpanOps :
          /\ h = 0 => \E k \in 1..Len(issued) : issued[k].kind = "span" /\ issued[k].ret = 0
          /\ \E attrs \in ArgsOf(op) :
                SetWorld(SpanHandle_call(World, h, clock + 1, op, attrs))
    /\ clock' = clock + 1
    /\ nHandleOps' = nHandleOps + 1
    /\ lifecycleFrame
    /\ UNCHANGED <<acts, issued>>

(* NodeOTelService.startActiveSpan up to the invocation of fn.  With no
   tracer the handle comes from this.startSpan; with a tracer the span is
   started by tracer.startActiveSpan and wrapped in a RealSpanHandle. *)
startActiveSpan(w, id) ==
    IF ~w.tracer THEN startSpan(w, id)
    ELSE LET c == createSpan(w, id)
         IN  IF c.threw THEN c ELSE NewHandle(c, "real", id)

Act(h) == [pc |-> "fn", h |-> h, fnCalls |-> 1, endCalls |-> 0, outcome |-> "none", settled |-> "none"]

StartActiveSpan ==
    /\ impl = "Node"
    /\ Len(acts) < MaxActive
    /\ LET w == startActiveSpan(World, clock + 1)
       IN  /\ SetWorld(w)
           /\ issued' = Append(issued, Call("span", "", w))
           /\ acts' = IF w.threw THEN acts ELSE Append(acts, Act(w.ret))
    /\ clock' = clock + 1
    /\ lifecycleFrame
    /\ UNCHANGED nHandleOps

(* fn's promise settles with `out`: finally { handle.end(); }.  The promise
   returned by startActiveSpan settles as fn's did, unless handle.end()
   throws: the exception of the finally block then replaces fn's result. *)
(* startActiveSpan without the finally block *)
settleActive_noFinally(w, a, id, out) ==
    [w |-> w,
     a |-> [a EXCEPT !.pc = "done", !.outcome = out, !.settled = out]]

settleActive(w, a, id, out) ==
    LET ended == SpanHandle_call(w, a.h, id, "end", NoAttrs)
    IN  [w |-> ended,
         a |-> [a EXCEPT !.pc = "done", !.endCalls = @ + 1, !.outcome = out,
                         !.settled = IF ended.threw THEN "reject" ELSE out]]

FnSettles ==
    /\ impl = "Node"
    /\ \E k \in 1..Len(acts), out \in Outcomes :
          /\ acts[k].pc = "fn"
          /\ LET r == settleActive(World, acts[k], clock + 1, out)
             IN  /\ SetWorld(r.w)
                 /\ acts' = [acts EXCEPT ![k] = r.a]
    /\ clock' = clock + 1
    /\ lifecycleFrame
    /\ UNCHANGED <<issued, nHandleOps>>

(* NodeOTelService.flush: await Promise.all of the forceFlush() of the span
   and log processors that exist.  The forceFlush() calls are made when
   flush() is called; the method then waits for their promises.
   `rejecting` are the processors whose forceFlush() rejects. *)
(* a flush that calls forceFlush() without the optional chaining *)
flushTargets_unguarded == {"span", "log"}

flushTargets == (IF spanProcessor THEN {"span"} ELSE {}) \cup
                (IF logProcessor THEN {"log"} ELSE {})
flush(rejecting) == IF rejecting = {} THEN "resolved" ELSE "rejected"

(* a call of flush() or shutdown() that is waiting: pc is the await it is
   at (0 the forceFlush() promises, k the k-th import of shutdown),
   targets the processors whose forceFlush() it waits for *)
Pending(op, pc, targets) == [op |-> op, pc |-> pc, targets |-> targets]
Without(seq, k) == SubSeq(seq, 1, k - 1) \o SubSeq(seq, k + 1, Len(seq))

coreFrame ==
    UNCHANGED <<impl, enabled, initPc, tracer, meter, logger, spanProcessor,
                logProcessor, metricReader, initialized, initFailed, buffer, batch,
                drainI, histograms, counters, handles, acts, applied, created,
                clock, issued, nHandleOps, throws, diag, input, resolved, fsink, events, exporters>>

(* flush() is called: the forceFlush() calls are made *)
Flush ==
    /\ impl = "Node"
    /\ Len(inflight) < MaxInflight
    /\ flushed' = flushed \cup flushTargets
    /\ inflight' = Append(inflight, Pending("flush", 0, flushTargets))
    /\ coreFrame
    /\ UNCHANGED <<flushResult, apiDisabled, shutdownResult, shutdownCaught, loaded>>

(* the forceFlush() promises of a flush() have settled, and so does the
   promise flush() returned *)
FlushSettles ==
    /\ \E k \in 1..Len(inflight) :
          /\ inflight[k].op = "flush"
          /\ \E rejecting \in SUBSET inflight[k].targets :
                flushResult' = flush(rejecting)
          /\ inflight' = Without(inflight, k)
    /\ coreFrame
    /\ UNCHANGED <<flushed, apiDisabled, shutdownResult, shutdownCaught, loaded>>

(* NodeOTelService.shutdown: try { await this.flush(); await import(api);
   await import(api-logs); disable the three global providers } catch { }.
   `threw` says whether a statement of the try block threw or rejected. *)
(* shutdown without its try/catch *)
shutdown_noCatch(threw) == IF threw THEN "rejected" ELSE "resolved"

shutdown(threw) == "resolved"

(* a shutdown that also resets the readiness flags *)
Shutdown_reset ==
    /\ impl = "Node"
    /\ Len(inflight) < MaxInflight
    /\ flushed' = flushed \cup flushTargets
    /\ inflight' = Append(inflight, Pending("shutdown", 0, flushTargets))
    /\ initialized' = FALSE
    /\ initFailed' = FALSE
    /\ UNCHANGED <<impl, enabled, initPc, tracer, meter, logger, spanProcessor,
                   logProcessor, metricReader, buffer, batch, drainI, histograms,
                   counters, handles, acts, applied, created, clock, issued,
                   nHandleOps, flushResult, throws, diag, input, resolved, fsink,
                   events, exporters, apiDisabled, shutdownResult, shutdownCaught,
                   loaded>>

(* shutdown() is called: this.flush() makes the forceFlush() calls *)
Shutdown ==
    /\ impl = "Node"
    /\ Len(inflight) < MaxInflight
    /\ flushed' = flushed \cup flushTargets
    /\ inflight' = Append(inflight, Pending("shutdown", 0, flushTargets))
    /\ coreFrame
    /\ UNCHANGED <<flushResult, apiDisabled, shutdownResult, shutdownCaught, loaded>>

(* the catch block of shutdown(): the call k resolves *)
shutdownCatch(k) ==
    /\ shutdownCaught' = TRUE
    /\ shutdownResult' = shutdown(TRUE)
    /\ inflight' = Without(inflight, k)
    /\ UNCHANGED <<apiDisabled, loaded>>

(* the promise a shutdown() awaits settles: that of this.flush(), then
   that of each import in turn; after the last import the three global
   providers are disabled and the call resolves *)
ShutdownResumes ==
    /\ \E k \in 1..Len(inflight) :
          /\ inflight[k].op = "shutdown"
          /\ IF inflight[k].pc = 0
             THEN \E rejecting \in SUBSET inflight[k].targets :
                     IF flush(rejecting) = "rejected"
                     THEN shutdownCatch(k)
                     ELSE /\ inflight' = [inflight EXCEPT ![k].pc = 1, ![k].targets = {}]
                          /\ UNCHANGED <<apiDisabled, shutdownResult, shutdownCaught, loaded>>
             ELSE \E ok \in BOOLEAN :
                     IF ~ok THEN shutdownCatch(k)
                     ELSE /\ loaded' = loaded \cup {ShutdownModules[inflight[k].pc]}
                          /\ IF inflight[k].pc < Len(ShutdownModules)
                             THEN /\ inflight' = [inflight EXCEPT ![k].pc = @ + 1]
                                  /\ UNCHANGED <<apiDisabled, shutdownResult, shutdownCaught>>
                             ELSE /\ apiDisabled' = TRUE
                                  /\ shutdownResult' = shutdown(FALSE)
                                  /\ inflight' = Without(inflight, k)
                                  /\ UNCHANGED shutdownCaught
    /\ coreFrame
    /\ UNCHANGED <<flushed, flushResult>>

----------------------------------------------------------------------------
(* NoopOTelService *)

noopFrame ==
    UNCHANGED <<impl, enabled, initPc, tracer, meter, logger, spanProcessor,
                logProcessor, metricReader, initialized, initFailed, buffer, batch,
                drainI, histograms, counters, handles, applied, created, flushed,
                apiDisabled, shutdownCaught, throws, diag, input, resolved, fsink, events, loaded, exporters>>

(* startSpan returns noopSpan; recordMetric, incrementCounter and
   emitLogRecord have empty bodies. *)
Noop_emit ==
    /\ impl = "Noop"
    /\ Len(issued) < MaxOps
    /\ \E kind \in {"span", "metric", "counter", "log"} :
          issued' = Append(issued, Call(kind, "", World))
    /\ clock' = clock + 1
    /\ noopFrame
    /\ UNCHANGED <<acts, flushResult, inflight, shutdownResult, nHandleOps>>

(* startActiveSpan: return fn(noopSpan) *)
Noop_startActiveSpan ==
    /\ impl = "Noop"
    /\ Len(acts) < MaxActive
    /\ acts' = Append(acts, Act(0))
    /\ clock' = clock + 1
    /\ noopFrame
    /\ UNCHANGED <<issued, flushResult, inflight, shutdownResult, nHandleOps>>

Noop_settleActive(a, out) ==
    [a EXCEPT !.pc = "done", !.outcome = out, !.settled = out]

Noop_FnSettles ==
    /\ impl = "Noop"
    /\ \E k \in 1..Len(acts), out \in Outcomes :
          /\ acts[k].pc = "fn"
          /\ acts' = [acts EXCEPT ![k] = Noop_settleActive(acts[k], out)]
    /\ noopFrame
    /\ UNCHANGED <<issued, clock, flushResult, inflight, shutdownResult, nHandleOps>>

(* a call on noopSpan *)
Noop_HandleCall ==
    /\ impl = "Noop"
    /\ nHandleOps < MaxHandleOps
    /\ \/ \E k \in 1..Len(issued) : issued[k].kind = "span"
       \/ Len(acts) > 0
    /\ nHandleOps' = nHandleOps + 1
    /\ clock' = clock + 1
    /\ noopFrame
    /\ UNCHANGED <<acts, issued, flushResult, inflight, shutdownResult>>

(* async flush() { } *)
Noop_Flush ==
    /\ impl = "Noop"
    /\ flushResult' = "resolved"
    /\ noopFrame
    /\ UNCHANGED <<acts, issued, clock, shutdownResult, nHandleOps, inflight>>

(* async shutdown() { } *)
Noop_Shutdown ==
    /\ impl = "Noop"
    /\ shutdownResult' = "resolved"
    /\ noopFrame
    /\ UNCHANGED <<acts, issued, clock, flushResult, inflight, nHandleOps>>

----------------------------------------------------------------------------
(* DiagnosticSpanExporter.  diag holds the wrapper's fields (exporterType,
   firstSuccessLogged), what the inner exporter has (innerMethods) and has
   been handed (exports[k].inner, innerCalls), the results it produced
   (results), the console (logs), the invocations of the callers' result
   callbacks (callbacks) and the calls of shutdown and forceFlush on the
   wrapper (forwards). *)

DiagnosticSpanExporter(exporterType, innerMethods) ==
    [exporterType |-> exporterType, firstSuccessLogged |-> FALSE,
     innerMethods |-> innerMethods, exports |-> <<>>, results |-> <<>>,
     logs |-> <<>>, callbacks |-> <<>>, innerCalls |-> <<>>, forwards |-> <<>>]

(* export that hands the inner exporter the batch without its last span *)
DiagnosticSpanExporter_export_truncating(d, spans) ==
    [d EXCEPT !.exports = Append(@, [spans |-> spans,
                                     inner |-> SubSeq(spans, 1, Len(spans) - 1),
                                     pending |-> TRUE])]

(* export(spans, resultCallback): this._inner.export(spans, result => ...) *)
DiagnosticSpanExporter_export(d, spans) ==
    [d EXCEPT !.exports = Append(@, [spans |-> spans, inner |-> spans, pending |-> TRUE])]

(* `${result.error ?? 'unknown error'}` *)
errorText(result) == IF result.error = "none" THEN "unknown error" ELSE result.error

(* a callback that logs every success *)
exportCallback_noFlag(d, k, result) ==
    LET logged ==
          IF result.code = 0
          THEN [d EXCEPT !.logs = Append(@, [level |-> "info", via |-> d.exporterType,
                                             n |-> Len(d.exports[k].spans), error |-> ""])]
          ELSE [d EXCEPT !.logs = Append(@, [level |-> "warn", via |-> d.exporterType,
                                             n |-> 0, error |-> errorText(result)])]
    IN  [logged EXCEPT !.callbacks = Append(@, [export |-> k, result |-> result])]

(* a callback that stops warning once a success has been logged *)
exportCallback_quietAfterSuccess(d, k, result) ==
    LET logged ==
          IF result.code = 0
          THEN IF ~d.firstSuccessLogged
               THEN [d EXCEPT !.firstSuccessLogged = TRUE,
                              !.logs = Append(@, [level |-> "info", via |-> d.exporterType,
                                                  n |-> Len(d.exports[k].spans), error |-> ""])]
               ELSE d
          ELSE IF d.firstSuccessLogged THEN d
               ELSE [d EXCEPT !.logs = Append(@, [level |-> "warn", via |-> d.exporterType,
                                                  n |-> 0, error |-> errorText(result)])]
    IN  [logged EXCEPT !.callbacks = Append(@, [export |-> k, result |-> result])]

(* a callback that does not pass a failure on to the caller *)
exportCallback_swallowFailure(d, k, result) ==
    LET logged ==
          IF result.code = 0
          THEN IF ~d.firstSuccessLogged
               THEN [d EXCEPT !.firstSuccessLogged = TRUE,
                              !.logs = Append(@, [level |-> "info", via |-> d.exporterType,
                                                  n |-> Len(d.exports[k].spans), error |-> ""])]
               ELSE d
          ELSE [d EXCEPT !.logs = Append(@, [level |-> "warn", via |-> d.exporterType,
                                             n |-> 0, error |-> errorText(result)])]
    IN  IF result.code = 0
        THEN [logged EXCEPT !.callbacks = Append(@, [export |-> k, result |-> result])]
        ELSE logged

(* The callback export hands to the inner exporter, for export k:
   result => { if (result.code === 0) { if (!this._firstSuccessLogged) {...
   console.info } } else { console.warn }; resultCallback(result) } *)
exportCallback(d, k, result) ==
    LET logged ==
          IF result.code = 0
          THEN IF ~d.firstSuccessLogged
               THEN [d EXCEPT !.firstSuccessLogged = TRUE,
                              !.logs = Append(@, [level |-> "info", via |-> d.exporterType,
                                                  n |-> Len(d.exports[k].spans), error |-> ""])]
               ELSE d
          ELSE [d EXCEPT !.logs = Append(@, [level |-> "warn", via |-> d.exporterType,
                                             n |-> 0, error |-> errorText(result)])]
    IN  [logged EXCEPT !.callbacks = Append(@, [export |-> k, result |-> result])]

(* shutdown() / forceFlush(): return this._inner.m?.() ?? Promise.resolve().
   innerOut is how the inner exporter's promise settles. *)
DiagnosticSpanExporter_forward(d, m, innerOut) ==
    IF m \in d.innerMethods
    THEN [d EXCEPT !.innerCalls = Append(@, m),
                   !.forwards = Append(@, [m |-> m, inner |-> innerOut, returned |-> innerOut])]
    ELSE [d EXCEPT !.forwards = Append(@, [m |-> m, inner |-> "absent", returned |-> "resolve"])]

(* the span processor exports a batch *)
DiagExport ==
    /\ Len(diag.exports) < MaxExports
    /\ \E spans \in Batches : diag' = DiagnosticSpanExporter_export(diag, spans)
    /\ UNCHANGED <<coreVars, input, resolved, fsink, events>>

(* the inner exporter reports the result of a pending export *)
InnerResult ==
    /\ \E k \in 1..Len(diag.exports), result \in Results :
          /\ diag.exports[k].pending
          /\ diag' = exportCallback(
                        [diag EXCEPT !.exports[k].pending = FALSE,
                                     !.results = Append(@, [export |-> k, result |-> result])],
                        k, result)
    /\ UNCHANGED <<coreVars, input, resolved, fsink, events>>

(* the span processor shuts the exporter down or flushes it *)
DiagForward ==
    /\ Len(diag.forwards) < MaxForwards
    /\ \E m \in {"shutdown", "forceFlush"}, innerOut \in Outcomes :
          diag' = DiagnosticSpanExporter_forward(diag, m, innerOut)
    /\ UNCHANGED <<coreVars, input, resolved, fsink, events>>

----------------------------------------------------------------------------
(* fileExporters.ts.  Text is a sequence of characters.  A record (a span,
   a log record, a metrics batch) is [name, cyclic]: an object with a name,
   which JSON.stringify can serialize unless the object refers to itself.
   fsink holds the file (content, and existing: what it held before the
   exporters were constructed), the write stream of each of the three
   exporters, for every export() call its exporter, its records, the data
   it wrote and the code its resultCallback received, and the callbacks the
   streams have scheduled and not yet run (pending), in the order in which
   they run; running says that the event loop is in the middle of running
   them, which it does to the end before the program makes another call.
   A write stream is the state of Node's Writable: opened (the file
   descriptor is there), ending (end() took effect), ended (shutdown() was
   called), errored, destroyed, finished, onFinished (the callback of end()
   waits), closed (the promise of shutdown() has resolved), buffered
   (writes that wait), writing (the writes handed to the file system in one
   write or writev) and io (idle; flying: handed over; ok, err: the file
   system is done with them). *)

(* the control characters U+0001 to U+001F, by code; a text of the model
   holds no U+0000 *)
ControlChars ==
   <<"", "", "", "", "", "", "", "",
     "\t", "\n", "", "\f", "\r", "", "", "",
     "", "", "", "", "", "", "", "",
     "", "", "", "", "", "", "">>
HexDigits == <<"0", "1", "2", "3", "4", "5", "6", "7", "8", "9", "a", "b", "c", "d", "e", "f">>

(* the escapes JSON.stringify writes inside a string: the quote and the
   backslash, the short escapes of U+0008, U+0009, U+000A, U+000C and
   U+000D, and \u00XX for every other control character *)
RECURSIVE escapeString(_)
escapeString(str) ==
    IF str = <<>> THEN <<>>
    ELSE LET c == Head(str)
             code == IF \E i \in 1..31 : ControlChars[i] = c
                     THEN CHOOSE i \in 1..31 : ControlChars[i] = c ELSE 0
         IN  (IF c \in {"\"", "\\"} THEN <<"\\", c>>
              ELSE IF code = 8 THEN <<"\\", "b">>
              ELSE IF code = 9 THEN <<"\\", "t">>
              ELSE IF code = 10 THEN <<"\\", "n">>
              ELSE IF code = 12 THEN <<"\\", "f">>
              ELSE IF code = 13 THEN <<"\\", "r">>
              ELSE IF code # 0
              THEN <<"\\", "u", "0", "0", HexDigits[(code \div 16) + 1], HexDigits[(code % 16) + 1]>>
              ELSE <<c>>) \o escapeString(Tail(str))

(* JSON.stringify of a record that is not cyclic *)
JSON_stringify(span) ==
    <<"{", "\"", "n", "a", "m", "e", "\"", ":", "\"">> \o escapeString(span.name) \o <<"\"", "}">>

(* try { return JSON.stringify(data) } catch { return '{}' } *)
safeStringify(span) ==
    IF span.cyclic THEN <<"{", "}">> ELSE JSON_stringify(span)

(* spans.map(s => safeStringify(s) + '\n').join('') *)
RECURSIVE FileSpanExporter_data(_)
FileSpanExporter_data(spans) ==
    IF spans = <<>> THEN <<>>
    ELSE safeStringify(Head(spans)) \o <<"\n">> \o FileSpanExporter_data(Tail(spans))

(* logs.map(l => safeStringify(l) + '\n').join('') *)
RECURSIVE FileLogExporter_data(_)
FileLogExporter_data(logs) ==
    IF logs = <<>> THEN <<>>
    ELSE safeStringify(Head(logs)) \o <<"\n">> \o FileLogExporter_data(Tail(logs))

(* safeStringify(metrics) + '\n' *)
FileMetricExporter_data(metrics) == safeStringify(metrics) \o <<"\n">>

Exporters == {"span", "log", "metric"}

(* a write stream as fs.createWriteStream returns it: the file is opened
   later, from the event loop *)
NewStream ==
    [opened |-> FALSE, ending |-> FALSE, ended |-> FALSE, errored |-> FALSE,
     destroyed |-> FALSE, finished |-> FALSE, onFinished |-> FALSE, closed |-> FALSE,
     buffered |-> <<>>, writing |-> <<>>, io |-> "idle"]

(* a file that holds `existing`, no exporter constructed on it *)
File(existing) ==
    [content |-> existing, existing |-> existing, exports |-> <<>>, pending |-> <<>>,
     running |-> FALSE, streams |-> [x \in Exporters |-> NewStream]]

(* fs.createWriteStream(filePath, { flags }) for the exporter x *)
createWriteStream(f, x, flags) ==
    [f EXCEPT !.content = IF flags = "a" THEN @ ELSE <<>>,
              !.streams[x] = NewStream]

(* a constructor that opens the file for writing from the start *)
BaseFileExporter_truncating(f, x) == createWriteStream(f, x, "w")

(* BaseFileExporter.constructor *)
BaseFileExporter(f, x) == createWriteStream(f, x, "a")

(* _createExporters for the file kind: the three exporters are constructed
   on the same path *)
createFileExporters(existing) ==
    BaseFileExporter(BaseFileExporter(BaseFileExporter(File(existing), "span"), "log"),
                     "metric")

(* a scheduled callback: "cb" is the callback of the write of export k,
   the others are the steps of the stream that follow its callbacks *)
Item(t, x, k, err) == [t |-> t, x |-> x, k |-> k, err |-> err]
callbacks(x, ks, err) == [i \in 1..Len(ks) |-> Item("cb", x, ks[i], err)]

(* the data of the exports ks, joined *)
RECURSIVE dataOf(_, _)
dataOf(f, ks) ==
    IF ks = <<>> THEN <<>> ELSE f.exports[Head(ks)].data \o dataOf(f, Tail(ks))

(* Writable.destroy(err): a stream that still holds buffered writes or the
   callback of end() fails them on the next tick *)
destroy(f, x, err) ==
    LET s == f.streams[x]
    IN  IF s.destroyed THEN f
        ELSE [f EXCEPT !.streams[x].destroyed = TRUE,
                       !.streams[x].errored = (@ \/ err),
                       !.pending = @ \o (IF s.buffered # <<>> \/ s.onFinished
                                         THEN <<Item("errorBuffer", x, 0, TRUE)>>
                                         ELSE <<>>)]

(* errorBuffer(state): unless a write is under way, every buffered write
   is called back with an error, then the callback of end() *)
errorBuffer(f, x) ==
    LET s == f.streams[x]
    IN  IF s.io # "idle" THEN f
        ELSE [f EXCEPT !.pending = callbacks(x, s.buffered, TRUE)
                                   \o (IF s.onFinished THEN <<Item("resolve", x, 0, TRUE)>>
                                       ELSE <<>>)
                                   \o @,
                       !.streams[x].buffered = <<>>,
                       !.streams[x].onFinished = FALSE]

(* needFinish(state) *)
needFinish(s) ==
    /\ s.ending /\ ~s.destroyed /\ s.opened /\ ~s.errored /\ ~s.finished
    /\ s.buffered = <<>> /\ s.io = "idle"

(* finishMaybe(stream, state, sync): a stream that needs to finish, and
   has not scheduled it yet, finishes on the next tick when sync is set
   (from end() and after the callbacks of a write) and at once otherwise
   (when the file has opened) *)
finishMaybe(f, x, sync) ==
    IF /\ needFinish(f.streams[x])
       /\ \A i \in 1..Len(f.pending) : ~(f.pending[i].t = "finish" /\ f.pending[i].x = x)
    THEN [f EXCEPT !.pending = IF sync THEN Append(@, Item("finish", x, 0, FALSE))
                                ELSE <<Item("finish", x, 0, FALSE)>> \o @]
    ELSE f

(* writeStream.write(data, cb) for the export k: after end() and on a
   destroyed stream the callback is scheduled with an error and the stream
   is destroyed; the write waits while the file is not open or another
   write is under way; otherwise it is handed to the file system *)
write(f, x, k) ==
    LET s == f.streams[x]
    IN  IF s.ending \/ s.destroyed
        THEN destroy([f EXCEPT !.pending = Append(@, Item("cb", x, k, TRUE))], x, TRUE)
        ELSE IF s.io # "idle" \/ s.errored \/ ~s.opened
        THEN [f EXCEPT !.streams[x].buffered = Append(@, k)]
        ELSE [f EXCEPT !.streams[x].writing = <<k>>, !.streams[x].io = "flying"]

(* FileSpanExporter.export *)
FileSpanExporter_export(f, spans) ==
    write([f EXCEPT !.exports = Append(@, [exporter |-> "span", spans |-> spans,
                                           data |-> FileSpanExporter_data(spans),
                                           code |-> "pending"])],
          "span", Len(f.exports) + 1)

(* FileLogExporter.export *)
FileLogExporter_export(f, logs) ==
    write([f EXCEPT !.exports = Append(@, [exporter |-> "log", spans |-> logs,
                                           data |-> FileLogExporter_data(logs),
                                           code |-> "pending"])],
          "log", Len(f.exports) + 1)

(* FileMetricExporter.export *)
FileMetricExporter_export(f, metrics) ==
    write([f EXCEPT !.exports = Append(@, [exporter |-> "metric", spans |-> <<metrics>>,
                                           data |-> FileMetricExporter_data(metrics),
                                           code |-> "pending"])],
          "metric", Len(f.exports) + 1)

(* the file system carries out the write or writev of the stream x: all
   of the data is appended to the file, or the write fails after a part of
   it, which may be nothing *)
writeAll(f, x, err, written) ==
    LET data == dataOf(f, f.streams[x].writing)
    IN  [f EXCEPT !.content = @ \o (IF err THEN SubSeq(data, 1, written) ELSE data),
                  !.streams[x].io = IF err THEN "err" ELSE "ok"]

(* what the file and the stream x can be once the file system has carried
   out a write that is under way *)
arrivals(f, x) ==
    IF f.streams[x].io # "flying" THEN {}
    ELSE {writeAll(f, x, FALSE, 0)}
         \cup {writeAll(f, x, TRUE, n) :
                  n \in 0..(Len(dataOf(f, f.streams[x].writing)) - 1)}

(* the stream opens its file (or fails to): the writes buffered so far go
   to the file system as one writev, and a stream that was ended with
   nothing to write finishes *)
onConstruct(f, x, err) ==
    LET s == f.streams[x]
        g == [f EXCEPT !.streams[x].opened = TRUE]
    IN  IF s.destroyed THEN g
        ELSE IF err THEN destroy(g, x, TRUE)
        ELSE finishMaybe([g EXCEPT !.streams[x].writing = s.buffered,
                                   !.streams[x].buffered = <<>>,
                                   !.streams[x].io = IF s.buffered = <<>> THEN "idle"
                                                     ELSE "flying"],
                         x, FALSE)

(* onwrite(stream, er): the file system reports the write under way.  The
   write has failed when the file system failed it and also when the
   stream was destroyed in the meantime, whatever reached the file: the
   stream is errored and the callbacks of the writes are called with the
   error.  On success the buffered writes go to the file system as the
   next writev and the callbacks of the writes just done are called.  The
   callbacks run before any callback that waits for the next tick. *)
onwrite(f, x) ==
    LET s == f.streams[x]
    IN  IF s.io = "err" \/ s.destroyed
        THEN [f EXCEPT !.streams[x].io = "idle",
                       !.streams[x].writing = <<>>,
                       !.streams[x].errored = TRUE,
                       !.pending = callbacks(x, s.writing, TRUE)
                                   \o <<Item("onwriteError", x, 0, TRUE)>> \o @]
        ELSE [f EXCEPT !.streams[x].io = IF s.buffered = <<>> THEN "idle" ELSE "flying",
                       !.streams[x].writing = s.buffered,
                       !.streams[x].buffered = <<>>,
                       !.pending = callbacks(x, s.writing, FALSE)
                                   \o <<Item("afterWrite", x, 0, FALSE)>> \o @]

(* the callback of writeStream.write that is due first: resultCallback
   receives FAILED with an error and SUCCESS without *)
writeCallback(f) ==
    LET it == Head(f.pending)
    IN  [f EXCEPT !.pending = Tail(@),
                  !.exports[it.k].code = IF it.err THEN "FAILED" ELSE "SUCCESS"]

(* what a stream does after the callbacks of a write: after a success it
   fails the buffered writes when it is destroyed, and when it is ending it
   may finish, on the next tick; after an error it fails the buffered
   writes and is destroyed *)
afterCallbacks(f) ==
    LET it == Head(f.pending)
        g == [f EXCEPT !.pending = Tail(@)]
    IN  CASE it.t = "afterWrite" ->
                IF f.streams[it.x].destroyed THEN errorBuffer(g, it.x)
                ELSE IF f.streams[it.x].ending THEN finishMaybe(g, it.x, TRUE)
                ELSE g
          [] it.t = "onwriteError" ->
                errorBuffer([g EXCEPT !.pending = <<Item("destroy", it.x, 0, TRUE)>> \o @],
                            it.x)
          [] it.t = "errorBuffer" -> errorBuffer(g, it.x)
          [] it.t = "destroy" -> destroy(g, it.x, TRUE)

(* BaseFileExporter.shutdown: this.writeStream.end(resolve).  A stream
   that is neither errored nor ending becomes ending, finishes on the next
   tick when nothing is left to write, and keeps resolve until it has
   finished.  On a stream that is finished, destroyed or errored resolve
   is called on the next tick. *)
BaseFileExporter_shutdown(f, x) ==
    LET s == f.streams[x]
        g == [f EXCEPT !.streams[x].ended = TRUE]
    IN  IF ~s.errored /\ ~s.ending
        THEN finishMaybe([g EXCEPT !.streams[x].ending = TRUE,
                                   !.streams[x].onFinished = TRUE],
                         x, TRUE)
        ELSE IF s.finished \/ s.destroyed \/ s.errored
        THEN [g EXCEPT !.pending = Append(@, Item("resolve", x, 0, TRUE))]
        ELSE [g EXCEPT !.streams[x].onFinished = TRUE]

(* the callback of end() runs.  "resolve": it was scheduled by end() or
   by errorBuffer.  "finish": the stream finishes if it still needs to,
   calls the callback of end() and is destroyed (autoDestroy) *)
endCallback(f) ==
    LET it == Head(f.pending)
        g == [f EXCEPT !.pending = Tail(@)]
    IN  IF it.t = "resolve" THEN [g EXCEPT !.streams[it.x].closed = TRUE]
        ELSE IF needFinish(f.streams[it.x])
        THEN [g EXCEPT !.streams[it.x].finished = TRUE,
                       !.streams[it.x].closed = f.streams[it.x].onFinished,
                       !.streams[it.x].onFinished = FALSE,
                       !.streams[it.x].destroyed = TRUE]
        ELSE g

PlainSpan == [name |-> <<"a">>, cyclic |-> FALSE]
EscapedSpan == [name |-> <<"\"", "\n", ControlChars[1]>>, cyclic |-> FALSE]
CyclicSpan == [name |-> <<"a">>, cyclic |-> TRUE]
SpanRecords == {PlainSpan, EscapedSpan, CyclicSpan}

(* the batches of the span exporter: a record, a record that cannot be
   serialized, and two records, the second with a name to escape *)
SpanBatches == {<<PlainSpan>>, <<CyclicSpan>>, <<PlainSpan, EscapedSpan>>}
LogRecord == [name |-> <<"L">>, cyclic |-> FALSE]
MetricRecord == [name |-> <<"M">>, cyclic |-> FALSE]

(* export() of the span exporter, called when no callback is running; the
   file system may have carried out the write by the time export()
   returns *)
FileExport ==
    /\ ~fsink.running
    /\ Len(fsink.exports) < MaxWrites
    /\ \E spans \in SpanBatches :
          LET f == FileSpanExporter_export(fsink, spans)
          IN  fsink' \in {f} \cup arrivals(f, "span")
    /\ UNCHANGED <<coreVars, diag, input, resolved, events>>

(* export() of the log exporter *)
FileLogExport ==
    /\ ~fsink.running
    /\ Len(fsink.exports) < MaxWrites
    /\ LET f == FileLogExporter_export(fsink, <<LogRecord>>)
       IN  fsink' \in {f} \cup arrivals(f, "log")
    /\ UNCHANGED <<coreVars, diag, input, resolved, events>>

(* export() of the metric exporter *)
FileMetricExport ==
    /\ ~fsink.running
    /\ Len(fsink.exports) < MaxWrites
    /\ LET f == FileMetricExporter_export(fsink, MetricRecord)
       IN  fsink' \in {f} \cup arrivals(f, "metric")
    /\ UNCHANGED <<coreVars, diag, input, resolved, events>>

(* the file of a stream opens, or fails to open, once the callbacks that
   are due have run *)
StreamOpens ==
    /\ fsink.pending = <<>>
    /\ \E x \in Exporters, err \in BOOLEAN :
          /\ ~fsink.streams[x].opened
          /\ LET f == onConstruct(fsink, x, err)
             IN  fsink' = [f EXCEPT !.running = (f.pending # <<>>)]
    /\ UNCHANGED <<coreVars, diag, input, resolved, events>>

(* the file system carries out a write that is under way *)
WriteReachesFile ==
    /\ \E x \in Exporters : fsink' \in arrivals(fsink, x)
    /\ UNCHANGED <<coreVars, diag, input, resolved, events>>

(* a callback of writeStream.write runs: the one that is due first, or,
   when none is due, the first of a write the file system is done with *)
WriteSettles ==
    /\ \/ /\ fsink.pending # <<>>
          /\ Head(fsink.pending).t = "cb"
          /\ LET f == writeCallback(fsink)
             IN  fsink' = [f EXCEPT !.running = (f.pending # <<>>)]
       \/ /\ fsink.pending = <<>>
          /\ \E x \in Exporters :
                /\ fsink.streams[x].io \in {"ok", "err"}
                /\ LET f == writeCallback(onwrite(fsink, x))
                   IN  fsink' = [f EXCEPT !.running = (f.pending # <<>>)]
    /\ UNCHANGED <<coreVars, diag, input, resolved, events>>

(* the stream goes on after the callbacks of a write *)
StreamSettles ==
    /\ fsink.pending # <<>>
    /\ Head(fsink.pending).t \in {"afterWrite", "onwriteError", "errorBuffer", "destroy"}
    /\ LET f == afterCallbacks(fsink)
       IN  fsink' = [f EXCEPT !.running = (f.pending # <<>>)]
    /\ UNCHANGED <<coreVars, diag, input, resolved, events>>

(* shutdown() of an exporter, called when no callback is running *)
FileShutdown ==
    /\ ~fsink.running
    /\ \E x \in Exporters :
          /\ ~fsink.streams[x].ended
          /\ fsink' = BaseFileExporter_shutdown(fsink, x)
    /\ UNCHANGED <<coreVars, diag, input, resolved, events>>

(* the stream has finished or has failed, and the promise of shutdown()
   resolves *)
FileShutdownResolves ==
    /\ fsink.pending # <<>>
    /\ Head(fsink.pending).t \in {"finish", "resolve"}
    /\ LET f == endCallback(fsink)
       IN  fsink' = [f EXCEPT !.running = (f.pending # <<>>)]
    /\ UNCHANGED <<coreVars, diag, input, resolved, events>>

----------------------------------------------------------------------------
(* genAiEvents.ts.  A content value (messages, systemMessage, tools) is an
   object [name, cyclic] as above; JSON.stringify throws a TypeError on a
   cyclic one.  events holds, for every emitInferenceDetailsEvent call, its
   arguments, whether it threw, and the (body, attributes) of the
   otel.emitLogRecord calls it made. *)

(* attributes[key] = o, when the optional o is set *)
Attr(key, o) == IF o = Undefined THEN NoAttributes ELSE key :> o[1]

(* emitInferenceDetailsEvent up to its call of otel.emitLogRecord: whether
   a JSON.stringify threw, and the body and attributes of the record *)
emitInferenceDetailsEvent(captureContent, request, response, error) ==
    LET content == IF captureContent
                   THEN {request.messages, request.systemMessage, request.tools} \ {Undefined}
                   ELSE {}
        threw == \E c \in content : c[1].cyclic
        str(o) == IF ~captureContent \/ o = Undefined \/ threw THEN Undefined
                  ELSE Some(JSON_stringify(o[1]))
        fromResponse ==
            IF response = Undefined THEN NoAttributes
            ELSE Attr("gen_ai.response.model",
                      IF Truthy(response[1].model) THEN response[1].model ELSE Undefined)
                 @@ Attr("gen_ai.response.id",
                         IF Truthy(response[1].id) THEN response[1].id ELSE Undefined)
                 @@ Attr("gen_ai.response.finish_reasons", response[1].finishReasons)
                 @@ Attr("gen_ai.usage.input_tokens", response[1].inputTokens)
                 @@ Attr("gen_ai.usage.output_tokens", response[1].outputTokens)
    IN  [threw |-> threw,
         body |-> <<"GenAI inference: ", request.model>>,
         attributes |->
            ("event.name" :> "gen_ai.client.inference.operation.details")
            @@ ("gen_ai.operation.name" :> "chat")
            @@ ("gen_ai.request.model" :> request.model)
            @@ fromResponse
            @@ Attr("gen_ai.request.temperature", request.temperature)
            @@ Attr("gen_ai.request.max_tokens", request.maxTokens)
            @@ Attr("error.type", IF error = Undefined THEN Undefined ELSE Some(error[1].type))
            @@ Attr("gen_ai.input.messages", str(request.messages))
            @@ Attr("gen_ai.system_instructions", str(request.systemMessage))
            @@ Attr("gen_ai.tool.definitions", str(request.tools))]

ContentValues == {[name |-> <<"a">>, cyclic |-> FALSE],
                  [name |-> <<"b">>, cyclic |-> FALSE],
                  [name |-> <<"a">>, cyclic |-> TRUE]}
Requests ==
    [model : {"gpt-4o"}, temperature : {Undefined}, maxTokens : {Undefined, Some(4096)},
     messages : {Undefined} \cup {Some(c) : c \in ContentValues},
     systemMessage : {Undefined, Some([name |-> <<"a">>, cyclic |-> FALSE])},
     tools : {Undefined, Some([name |-> <<"b">>, cyclic |-> FALSE])}]
Responses ==
    {Undefined,
     Some([id |-> Some("resp-1"), model |-> Some(""), finishReasons |-> Undefined,
           inputTokens |-> Some(100), outputTokens |-> Undefined])}
Errors == {Undefined, Some([type |-> "TimeoutError", message |-> "request timed out"])}

(* emitInferenceDetailsEvent(otel, request, response, error) on the
   NodeOTelService: when no JSON.stringify throws, otel.emitLogRecord runs. *)
EmitInferenceDetails ==
    /\ impl = "Node"
    /\ Len(events) < MaxEvents
    /\ \E request \in Requests, response \in Responses, error \in Errors :
          LET r == emitInferenceDetailsEvent(config.captureContent, request, response, error)
              call == [request |-> request, response |-> response, error |-> error,
                       threw |-> r.threw]
          IN  IF r.threw
              THEN /\ events' = Append(events, call @@ [records |-> <<>>])
                   /\ UNCHANGED coreVars
              ELSE /\ events' = Append(events, call @@ [records |->
                                    <<[body |-> r.body, attributes |-> r.attributes]>>])
                   /\ LET w == emitLogRecord(World, clock + 1)
                      IN  /\ SetWorld(w)
                          /\ issued' = Append(issued, Call("log", "", w))
                   /\ clock' = clock + 1
                   /\ UNCHANGED <<impl, enabled, initPc, spanProcessor, logProcessor,
                                  metricReader, initialized, batch, drainI, flushed,
                                  apiDisabled, flushResult, inflight, shutdownResult, shutdownCaught,
                                  acts, nHandleOps, throws, loaded, exporters>>
    /\ UNCHANGED <<diag, input, resolved, fsink>>

----------------------------------------------------------------------------
(* The constructors.  NodeOTelService's constructor runs _initialize up to
   its first await: with a disabled configuration the guard returns at
   once, otherwise the dynamic imports are pending. *)
constructPc(im, en) ==
    IF im = "Node"
    THEN IF en THEN "imports" ELSE "returned"
    ELSE "none"

InitService ==
    /\ impl \in {"Node", "Noop"}
    /\ enabled \in BOOLEAN
    /\ initPc = constructPc(impl, enabled)
    /\ tracer = FALSE /\ meter = FALSE /\ logger = FALSE
    /\ spanProcessor = FALSE /\ logProcessor = FALSE /\ metricReader = FALSE
    /\ initialized = FALSE /\ initFailed = FALSE
    /\ buffer = <<>> /\ batch = <<>> /\ drainI = 0
    /\ histograms = {} /\ counters = {}
    /\ handles = <<>> /\ acts = <<>>
    /\ applied = <<>> /\ created = <<>>
    /\ flushed = {} /\ apiDisabled = FALSE
    /\ flushResult = "none" /\ shutdownResult = "none"
    /\ inflight = <<>>
    /\ shutdownCaught = FALSE
    /\ clock = 0 /\ issued = <<>> /\ nHandleOps = 0
    /\ loaded = {} /\ exporters = <<>>
    /\ events = <<>>

(* the parts of the state that a specification leaves at rest *)
NoFile == fsink = createFileExporters(<<>>)
InitCore == InitService /\ NoFile
NoThrows == throws = {}
NoExports == diag = DiagnosticSpanExporter("otlp-http", {"shutdown", "forceFlush"})
NoConfig == input = makeInput /\ resolved = <<>>

(* a backend that never throws, and the exporter wrapper as _initialize
   constructs it *)
Init == InitCore /\ NoThrows /\ NoExports /\ NoConfig

InitializeSteps ==
    \/ ImportsSettle \/ ExportersReject \/ ConstructThrows \/ ConstructSucceeds
    \/ DrainResume

(* The core under emission calls: initialization, drain and the four
   synchronous emission calls. *)
Next ==
    \/ InitializeSteps
    \/ StartSpan \/ RecordMetric \/ IncrementCounter \/ EmitLogRecord
    \/ Noop_emit

Spec == Init /\ [][Next]_vars

(* The core under emission calls, flush() and shutdown(), each of which
   may be called while earlier flush() and shutdown() calls are waiting. *)
NextLifecycle ==
    \/ InitializeSteps
    \/ RecordMetric
    \/ Flush \/ FlushSettles \/ Shutdown \/ ShutdownResumes
    \/ Noop_emit \/ Noop_Flush \/ Noop_Shutdown

SpecLifecycle == Init /\ [][NextLifecycle]_vars

(* startActiveSpan in every readiness state; recordMetric fills the buffer. *)
NextActive ==
    \/ InitializeSteps
    \/ RecordMetric
    \/ StartActiveSpan \/ FnSettles
    \/ Noop_startActiveSpan \/ Noop_FnSettles

SpecActive == Init /\ [][NextActive]_vars

(* Every operation of the interface on a core constructed with a disabled
   configuration; the caller awaits a flush() or shutdown() before it calls
   the next. *)
InitDisabled == Init /\ enabled = FALSE

NextDisabled ==
    \/ (/\ Len(issued) < MaxDisabledOps
        /\ (StartSpan \/ RecordMetric \/ IncrementCounter \/ EmitLogRecord))
    \/ StartActiveSpan \/ FnSettles
    \/ (Flush /\ inflight = <<>>) \/ FlushSettles
    \/ (Shutdown /\ inflight = <<>>) \/ ShutdownResumes
    \/ Noop_emit \/ Noop_startActiveSpan \/ Noop_FnSettles
    \/ Noop_Flush \/ Noop_Shutdown

SpecDisabled == InitDisabled /\ [][NextDisabled]_vars

(* An enabled NodeOTelService over a backend that throws on some of the
   calls it receives. *)
InitThrowing ==
    /\ InitCore
    /\ impl = "Node"
    /\ enabled
    /\ throws \in SUBSET (1..MaxOps)
    /\ NoExports /\ NoConfig

NextThrowing ==
    \/ InitializeSteps
    \/ StartSpan \/ RecordMetric \/ EmitLogRecord

SpecThrowing == InitThrowing /\ [][NextThrowing]_vars

(* startActiveSpan of an enabled NodeOTelService over a backend that
   throws on some of the calls it receives, span.end() among them. *)
NextActiveThrowing ==
    \/ InitializeSteps
    \/ RecordMetric
    \/ StartActiveSpan \/ FnSettles

SpecActiveThrowing == InitThrowing /\ [][NextActiveThrowing]_vars

(* The DiagnosticSpanExporter of an enabled NodeOTelService, driven by the
   span processor and by its inner exporter.  forceFlush is optional in the
   SpanExporter interface. *)
InitExporter ==
    /\ InitCore
    /\ impl = "Node"
    /\ enabled
    /\ NoThrows /\ NoConfig
    /\ \E t \in ExporterTypes, ms \in {{"shutdown"}, {"shutdown", "forceFlush"}} :
          diag = DiagnosticSpanExporter(t, ms)

NextExporter == DiagExport \/ InnerResult \/ DiagForward

SpecExporter == InitExporter /\ [][NextExporter]_vars

(* resolveOTelConfig over the inputs that decide whether telemetry is
   enabled and whether content is captured. *)
EnvBools == {Undefined, Some("true"), Some("1"), Some("false"), Some("0"), Some("")}
SettingBools == {Undefined, Some(TRUE), Some(FALSE)}
EnvEndpoints == {Undefined, Some(<<>>), Some(<<"http://", "collector", ":4318">>)}
TelemetryLevels == {Undefined, Some("off"), Some("error"), Some("all")}

InitConfig ==
    /\ InitCore
    /\ impl = "Node"
    /\ enabled
    /\ NoThrows /\ NoExports
    /\ resolved = <<>>
    /\ \E override \in EnvBools, setting \in SettingBools, endpoint \in EnvEndpoints,
          level \in TelemetryLevels, capture \in EnvBools, settingCapture \in SettingBools :
          input = [makeInput EXCEPT !.env.COPILOT_OTEL_ENABLED = override,
                                    !.settingEnabled = setting,
                                    !.env.OTEL_EXPORTER_OTLP_ENDPOINT = endpoint,
                                    !.vscodeTelemetryLevel = level,
                                    !.env.COPILOT_OTEL_CAPTURE_CONTENT = capture,
                                    !.settingCaptureContent = settingCapture]

NextConfig == Resolve

SpecConfig == InitConfig /\ [][NextConfig]_vars

(* resolveOTelConfig over the inputs that decide the protocol and the
   endpoint: the three sources of the raw endpoint and the two protocol
   variables.  The raw endpoints are unset, empty, a URL with a path, a
   quoted URL, a URL with the default port of its scheme, host:port
   without a scheme (which new URL reads as a URL of scheme "localhost"),
   the same with a path, a URL with an empty path segment, and a string
   that is no URL. *)
RawEndpoints ==
    {Undefined, Some(<<>>),
     Some(<<"http://", "collector", ":4317", "/v1/traces">>),
     Some(<<"\"", "https://", "localhost", "\"">>),
     Some(<<"http://", "localhost", ":80">>),
     Some(<<"localhost", ":4317">>),
     Some(<<"localhost", ":4317", "/v1/traces">>),
     Some(<<"http://", "collector", "/", "/v1/traces">>),
     Some(<<"not a url">>)}
EnvProtocols == {Undefined, Some("grpc"), Some("http")}

InitEndpoint ==
    /\ InitCore
    /\ impl = "Node"
    /\ enabled
    /\ NoThrows /\ NoExports
    /\ resolved = <<>>
    /\ \E override \in {Undefined, Some("true")},
          copilotEndpoint \in RawEndpoints, otlpEndpoint \in RawEndpoints,
          settingEndpoint \in RawEndpoints,
          copilotProtocol \in EnvProtocols, otlpProtocol \in EnvProtocols :
          input = [makeInput EXCEPT !.env.COPILOT_OTEL_ENABLED = override,
                                    !.settingEnabled = Some(TRUE),
                                    !.env.COPILOT_OTEL_ENDPOINT = copilotEndpoint,
                                    !.env.OTEL_EXPORTER_OTLP_ENDPOINT = otlpEndpoint,
                                    !.settingOtlpEndpoint = settingEndpoint,
                                    !.env.COPILOT_OTEL_PROTOCOL = copilotProtocol,
                                    !.env.OTEL_EXPORTER_OTLP_PROTOCOL = otlpProtocol]

NextEndpoint == Resolve

SpecEndpoint == InitEndpoint /\ [][NextEndpoint]_vars

(* resolveOTelConfig over the inputs that decide the exporter type: the
   two sources of the file path, the exporter-type setting, the two
   protocol variables, the override and an endpoint. *)
EnvPaths == {Undefined, Some(""), Some("/tmp/otel.jsonl")}
SettingPaths == {Undefined, Some(""), Some("/tmp/out.jsonl")}
SettingExporterTypes ==
    {Undefined, Some("otlp-grpc"), Some("otlp-http"), Some("console"), Some("file")}

InitExporterType ==
    /\ InitCore
    /\ impl = "Node"
    /\ enabled
    /\ NoThrows /\ NoExports
    /\ resolved = <<>>
    /\ \E override \in {Undefined, Some("true"), Some("false")},
          envPath \in EnvPaths, settingPath \in SettingPaths,
          settingType \in SettingExporterTypes,
          copilotProtocol \in EnvProtocols, otlpProtocol \in EnvProtocols,
          endpoint \in {Undefined, Some(<<"http://", "collector", ":4317", "/v1/traces">>)} :
          input = [makeInput EXCEPT !.env.COPILOT_OTEL_ENABLED = override,
                                    !.settingEnabled = Some(TRUE),
                                    !.env.COPILOT_OTEL_FILE_EXPORTER_PATH = envPath,
                                    !.settingOutfile = settingPath,
                                    !.settingExporterType = settingType,
                                    !.env.COPILOT_OTEL_PROTOCOL = copilotProtocol,
                                    !.env.OTEL_EXPORTER_OTLP_PROTOCOL = otlpProtocol,
                                    !.env.OTEL_EXPORTER_OTLP_ENDPOINT = endpoint]

NextExporterType == Resolve

SpecExporterType == InitExporterType /\ [][NextExporterType]_vars

(* An enabled NodeOTelService whose callers emit before, during and after
   the drain; the timer of a yield between two chunks (setTimeout 0) fires
   once the event loop gets to it. *)
InitDrain == Init /\ impl = "Node" /\ enabled

NextDrain ==
    \/ InitializeSteps
    \/ StartSpan \/ RecordMetric \/ EmitLogRecord

SpecDrainFair == InitDrain /\ [][NextDrain]_vars /\ WF_vars(DrainResume)

(* An enabled NodeOTelService whose callers start spans while it
   initializes and the buffer has room, and call the methods of the handles
   they were given before, during and after the drain of an initialization
   that succeeds. *)
InitHandle == Init /\ impl = "Node" /\ enabled

NextHandle ==
    \/ ImportsResolve \/ ConstructSucceeds \/ DrainResume
    \/ (StartSpan /\ ~tracer /\ Len(buffer) < MAX_BUFFER_SIZE)
    \/ HandleCall

SpecHandle == InitHandle /\ [][NextHandle]_vars

(* The core under every emission call and the methods of the handles
   startSpan returned, before, during and after the drain of a successful
   initialization. *)
InitReplayOrder == Init /\ impl = "Node" /\ enabled

NextReplayOrder ==
    \/ ImportsResolve \/ ConstructSucceeds \/ DrainResume
    \/ (StartSpan /\ Len(issued) < MaxSpans)
    \/ RecordMetric \/ IncrementCounter \/ EmitLogRecord
    \/ HandleCall

SpecReplayOrder == InitReplayOrder /\ [][NextReplayOrder]_vars

(* A NodeOTelService constructed with the configuration resolved from the
   sources of the exporter type; log records are emitted while it
   initializes. *)
InitFactory ==
    /\ InitCore
    /\ impl = "Node"
    /\ NoThrows
    /\ \E override \in {Undefined, Some("true")},
          envPath \in EnvPaths, settingPath \in SettingPaths,
          settingType \in SettingExporterTypes, otlpProtocol \in EnvProtocols :
          input = [makeInput EXCEPT !.env.COPILOT_OTEL_ENABLED = override,
                                    !.env.COPILOT_OTEL_FILE_EXPORTER_PATH = envPath,
                                    !.settingOutfile = settingPath,
                                    !.settingExporterType = settingType,
                                    !.env.OTEL_EXPORTER_OTLP_PROTOCOL = otlpProtocol]
    /\ resolved = Some(resolveOTelConfig(input))
    /\ enabled = resolved[1].enabled
    /\ diag = DiagnosticSpanExporter(resolved[1].exporterType, {"shutdown", "forceFlush"})

NextFactory == InitializeSteps \/ EmitLogRecord

SpecFactory == InitFactory /\ [][NextFactory]_vars

(* The three file exporters of _createExporters, opened for appending on
   one path that earlier runs may have written: whole lines, each the JSON
   text of a span.  At most MaxWrites exports are made over the three
   exporters.  The scenario is the one in which a failing write leaves at
   most MaxPartial characters in the file and the exporter that is shut
   down is the span exporter. *)
ExistingContents == {<<>>, FileSpanExporter_data(<<[name |-> <<"a">>, cyclic |-> FALSE]>>)}

InitFile ==
    /\ InitService
    /\ impl = "Node"
    /\ enabled
    /\ NoThrows /\ NoExports /\ NoConfig
    /\ \E existing \in ExistingContents : fsink = createFileExporters(existing)

(* a write that fails has left at most MaxPartial characters in the file *)
SmallLoss ==
    (\E x \in Exporters : fsink'.streams[x].io = "err" /\ fsink.streams[x].io # "err")
        => Len(fsink'.content) <= Len(fsink.content) + MaxPartial

(* the exporter that is shut down is the span exporter *)
OfSpanExporter == \A x \in {"log", "metric"} : fsink'.streams[x] = fsink.streams[x]

NextFile ==
    \/ (FileExport /\ SmallLoss) \/ (FileLogExport /\ SmallLoss)
    \/ (FileMetricExport /\ SmallLoss) \/ (WriteReachesFile /\ SmallLoss)
    \/ StreamOpens \/ WriteSettles \/ StreamSettles
    \/ (FileShutdown /\ OfSpanExporter) \/ FileShutdownResolves

SpecFile == InitFile /\ [][NextFile]_vars

(* A NodeOTelService constructed with the configuration resolved from the
   content-capture sources, as createMockOTel resolves it; the inference
   events are emitted on it. *)
InitGenAi ==
    /\ InitCore
    /\ impl = "Node"
    /\ NoThrows /\ NoExports
    /\ \E capture \in {Undefined, Some("true")}, settingCapture \in {Undefined, Some(TRUE)} :
          input = [makeInput EXCEPT !.env.COPILOT_OTEL_ENABLED = Some("true"),
                                    !.env.COPILOT_OTEL_CAPTURE_CONTENT = capture,
                                    !.settingCaptureContent = settingCapture]
    /\ resolved = Some(resolveOTelConfig(input))
    /\ enabled = resolved[1].enabled

NextGenAi == EmitInferenceDetails

SpecGenAi == InitGenAi /\ [][NextGenAi]_vars

(* resolveOTelConfig over the values of COPILOT_OTEL_LOG_LEVEL: unset, the
   five levels, and strings that are no level. *)
EnvLogLevels ==
    {Undefined, Some("trace"), Some("debug"), Some("info"), Some("warn"), Some("error"),
     Some("verbose"), Some("INFO"), Some("")}

InitLogLevel ==
    /\ InitCore
    /\ impl = "Node"
    /\ enabled
    /\ NoThrows /\ NoExports
    /\ resolved = <<>>
    /\ \E level \in EnvLogLevels, override \in EnvBools, setting \in SettingBools,
          telemetry \in TelemetryLevels :
          input = [makeInput EXCEPT !.env.COPILOT_OTEL_LOG_LEVEL = level,
                                    !.env.COPILOT_OTEL_ENABLED = override,
                                    !.settingEnabled = setting,
                                    !.vscodeTelemetryLevel = telemetry]

NextLogLevel == Resolve

SpecLogLevel == InitLogLevel /\ [][NextLogLevel]_vars

(* resolveOTelConfig over the values of OTEL_RESOURCE_ATTRIBUTES: unset,
   every string of at most MaxAttrLen characters over a key character, a
   value character, '=', ',', the blank and the tab, and the strings
   __proto__=v and k=v,__proto__=v *)
AttrChars == {"k", "v", "=", ",", " ", "\t"}
AttrStrings ==
    UNION {[1..n -> AttrChars] : n \in 0..MaxAttrLen}
        \cup {ProtoKey \o <<"=", "v">>, <<"k", "=", "v", ",">> \o ProtoKey \o <<"=", "v">>}

InitAttributes ==
    /\ InitCore
    /\ impl = "Node"
    /\ enabled
    /\ NoThrows /\ NoExports
    /\ resolved = <<>>
    /\ \E raw \in {Undefined} \cup {Some(a) : a \in AttrStrings} :
          input = [makeInput EXCEPT !.env.COPILOT_OTEL_ENABLED = Some("true"),
                                    !.env.OTEL_RESOURCE_ATTRIBUTES = raw]

NextAttributes == Resolve

SpecAttributes == InitAttributes /\ [][NextAttributes]_vars

----------------------------------------------------------------------------
(* Vocabulary of the properties *)

EmissionEvs == {"startSpan", "record", "add", "emit"}
IsEmissionEv(e) == e.ev \in EmissionEvs
EvOf(kind) ==
    CASE kind = "span" -> "startSpan"
      [] kind = "metric" -> "record"
      [] kind = "counter" -> "add"
      [] kind = "log" -> "emit"

(* calls made while initialization was pending *)
PreReady(c) == c.pc \in {"imports", "exporters"}
QueuedPreReady(c) == PreReady(c) /\ c.outcome = "queued"
AfterFailure(c) == c.pc = "failed"

(* the backend calls that came from a buffered emission call *)
IsReplay(e) ==
    /\ IsEmissionEv(e)
    /\ \E k \in 1..Len(issued) : issued[k].id = e.id /\ issued[k].outcome = "queued"
Replayed == SelectSeq(applied, IsReplay)

Ids(seq) == [k \in 1..Len(seq) |-> seq[k].id]
CallSigs(seq) == [k \in 1..Len(seq) |-> <<seq[k].id, EvOf(seq[k].kind), seq[k].name>>]
EvSigs(seq) == [k \in 1..Len(seq) |-> <<seq[k].id, seq[k].ev, seq[k].name>>]

----------------------------------------------------------------------------
(* C1: when initialization succeeds, the buffered emission calls are
   replayed against the backend in exactly their call order: after each
   chunk the backend has received the first i + BATCH_SIZE of them, and
   when the drain is over all of them, each once and in call order. *)
ReplayInCallOrder ==
    LET q == SelectSeq(issued, QueuedPreReady)
    IN  /\ initPc = "yield" =>
              EvSigs(Replayed) = CallSigs(SubSeq(q, 1, drainI + BATCH_SIZE))
        /\ initPc = "done" => EvSigs(Replayed) = CallSigs(q)

(* a drain of a full buffer that took more than one chunk is over *)
ReplayInCallOrderWitness ==
    /\ initPc = "done"
    /\ drainI > 0
    /\ Len(Replayed) = MAX_BUFFER_SIZE
    /\ \E k \in 1..Len(batch) : batch[k].kind # batch[1].kind

(* C2: when initialization fails the buffer is discarded and none of the
   buffered calls ever reaches the backend, no buffered handle is ever
   bound, and the failure is caught inside _initialize. *)
FailureDiscardsBuffer ==
    /\ initPc # "rejected"
    /\ initPc = "failed" =>
          /\ initFailed
          /\ ~initialized
          /\ buffer = <<>>
          /\ Replayed = <<>>
          /\ \A h \in 1..Len(handles) :
                handles[h].kind = "buffered" => handles[h].real = 0

(* initialization failed with calls in the buffer, and calls came after *)
FailureDiscardsBufferWitness ==
    /\ initPc = "failed"
    /\ Len(SelectSeq(issued, QueuedPreReady)) >= 2
    /\ Len(SelectSeq(issued, AfterFailure)) >= 1

(* C3: the buffer never holds more than MAX_BUFFER_SIZE closures; of the
   calls made before readiness exactly the first MAX_BUFFER_SIZE are
   queued and the later ones dropped, and after the drain exactly those
   first ones have been replayed. *)
BufferCapacity ==
    LET pre == SelectSeq(issued, PreReady)
        kept == SubSeq(pre, 1, Min(Len(pre), MAX_BUFFER_SIZE))
    IN  /\ Len(buffer) <= MAX_BUFFER_SIZE
        /\ \A k \in 1..Len(pre) :
              pre[k].outcome = IF k <= MAX_BUFFER_SIZE THEN "queued" ELSE "dropped"
        /\ initPc = "done" => Ids(Replayed) = Ids(kept)

(* more calls than the buffer holds were made before readiness, and the
   drain is over *)
BufferCapacityWitness ==
    /\ initPc = "done"
    /\ Len(SelectSeq(issued, PreReady)) > MAX_BUFFER_SIZE
    /\ Len(Replayed) = MAX_BUFFER_SIZE

(* C4: FIFO per core: the emission calls that reach the backend reach it
   in the order in which they were issued. *)
FifoPerCore ==
    LET e == SelectSeq(applied, IsEmissionEv)
    IN  \A p, q \in 1..Len(e) : p < q => e[p].id < e[q].id

(* C5: once initialization has failed every later emission call is
   discarded, and startSpan returns the no-op handle. *)
NoopAfterFailure ==
    \A k \in 1..Len(issued) :
        AfterFailure(issued[k]) => issued[k].outcome = "dropped" /\ issued[k].ret = 0

(* C6: with a disabled configuration every operation of the interface is
   a complete no-op, after any sequence of operations: nothing is applied
   to the backend, no instrument is created or cached, no processor or
   provider exists, no forceFlush is requested, nothing is queued in the
   buffer or in a span handle, no module is loaded and the global API is
   not touched. *)
DisabledNoEffects ==
    ~enabled =>
        /\ applied = <<>>
        /\ created = <<>>
        /\ histograms = {} /\ counters = {}
        /\ flushed = {}
        /\ ~tracer /\ ~meter /\ ~logger
        /\ ~spanProcessor /\ ~logProcessor /\ ~metricReader
        /\ ~initialized /\ ~initFailed
        /\ buffer = <<>>
        /\ handles = <<>>
        /\ loaded = {}
        /\ ~apiDisabled

(* C7: on a core constructed with a disabled configuration startSpan
   returns the no-op handle and the buffer stays empty. *)
DisabledNeverBuffers ==
    ~enabled =>
        /\ buffer = <<>>
        /\ \A k \in 1..Len(issued) : issued[k].kind = "span" => issued[k].ret = 0

(* the end() calls that have reached handle h: still queued in it, or
   applied to the span it is bound to *)
IsEnd(e) == IF "ev" \in DOMAIN e THEN e.ev = "end" ELSE e.op = "end"
EndsOn(h) ==
    Len(SelectSeq(handles[h].ops, IsEnd)) +
    Cardinality({p \in 1..Len(applied) :
                    /\ handles[h].real # 0
                    /\ applied[p].ev = "end"
                    /\ applied[p].span = handles[h].real})

(* C8: in every readiness state, the disabled one included,
   startActiveSpan invokes fn once, calls end() on the handle exactly once
   after fn has settled, and settles as fn did. *)
ActiveSpanEndsOnce ==
    \A k \in 1..Len(acts) :
        /\ acts[k].fnCalls = 1
        /\ acts[k].pc = "fn" => acts[k].endCalls = 0
        /\ acts[k].pc = "done" => acts[k].endCalls = 1 /\ acts[k].settled = acts[k].outcome

(* over a backend that does not throw: NodeOTelService.startActiveSpan
   does so in every readiness state, and the one end() reaches the handle;
   NoopOTelService invokes fn once with the no-op handle, settles as fn did
   and never calls end() *)
ActiveSpanEndsOnceNode ==
    \A k \in 1..Len(acts) :
        /\ acts[k].fnCalls = 1
        /\ acts[k].pc = "fn" => acts[k].endCalls = 0
        /\ acts[k].pc = "done" =>
              /\ acts[k].settled = acts[k].outcome
              /\ acts[k].endCalls = IF impl = "Node" THEN 1 ELSE 0
        /\ acts[k].h # 0 => EndsOn(acts[k].h) = acts[k].endCalls

(* an active span of the real core, started while Initializing on a
   buffered handle, whose fn rejected after the drain had bound the handle *)
ActiveSpanEndsOnceNodeWitness ==
    \E k \in 1..Len(acts) :
        /\ impl = "Node"
        /\ acts[k].pc = "done"
        /\ acts[k].outcome = "reject"
        /\ acts[k].h # 0
        /\ handles[acts[k].h].kind = "buffered"
        /\ handles[acts[k].h].real # 0
        /\ initPc = "done"

(* C9: shutdown() never rejects, also when its flush or the release of the
   global providers fails. *)
ShutdownNeverRejects == shutdownResult # "rejected"

(* a shutdown of a Ready core whose try block threw has resolved *)
ShutdownNeverRejectsWitness ==
    /\ shutdownResult = "resolved"
    /\ shutdownCaught
    /\ initPc = "done"
    /\ "span" \in flushed

(* C10: no operation of the core rejects back to its caller. *)
NoOperationRejects ==
    /\ flushResult # "rejected"
    /\ shutdownResult # "rejected"

(* C11: for each metric name the meter is asked for at most one instrument
   during the lifetime of a core, whatever the order of recordMetric and
   incrementCounter calls. *)
OneInstrumentPerName ==
    \A p, q \in 1..Len(created) : created[p].name = created[q].name => p = q

(* The readiness state of a core, read off its two flags. *)
Readiness ==
    CASE initialized /\ ~initFailed -> "Ready"
      [] initFailed /\ ~initialized -> "Failed"
      [] ~initialized /\ ~initFailed -> "Initializing"
      [] OTHER -> "ReadyAndFailed"

(* C12: the readiness state changes only from Initializing to Ready or from
   Initializing to Failed; Ready and Failed are never left and never hold
   together, whatever emission call, flush or shutdown comes later. *)
ReadinessMonotone ==
    [][/\ Readiness' # "ReadyAndFailed"
       /\ Readiness' # Readiness =>
              Readiness = "Initializing" /\ Readiness' \in {"Ready", "Failed"}]_vars

(* a Ready core that has since seen an emission call, a flush and a
   shutdown *)
ReadinessMonotoneWitness ==
    /\ Readiness = "Ready"
    /\ \E k \in 1..Len(issued) : issued[k].pc = "done"
    /\ flushResult # "none"
    /\ shutdownResult # "none"

(* the backend calls, performed or thrown, that came from a buffered
   emission call *)
IsInvocation(e) ==
    /\ e.ev \in EmissionEvs \cup {"throw"}
    /\ \E k \in 1..Len(issued) : issued[k].id = e.id /\ issued[k].outcome = "queued"
Invoked == SelectSeq(applied, IsInvocation)

(* C13: a buffered operation that throws during the drain does not stop
   the drain: after each chunk every closure of the chunks run so far has
   been invoked, once and in buffer order, the ones that do not throw have
   reached the backend, and the core is Ready and not Failed. *)
DrainSurvivesThrow ==
    LET q == SelectSeq(issued, QueuedPreReady)
        upto == IF initPc = "yield" THEN Min(drainI + BATCH_SIZE, Len(q)) ELSE Len(q)
    IN  initPc \in {"yield", "done"} =>
            /\ Readiness = "Ready"
            /\ Ids(Invoked) = Ids(SubSeq(q, 1, upto))
            /\ \A k \in 1..upto :
                  Invoked[k].ev = IF q[k].id \in throws THEN "throw" ELSE EvOf(q[k].kind)

(* the drain of a full buffer is over; the first closure threw and closures
   of the same chunk and of the next chunk ran after it *)
DrainSurvivesThrowWitness ==
    /\ initPc = "done"
    /\ Len(batch) = MAX_BUFFER_SIZE
    /\ drainI > 0
    /\ batch[1].id \in throws
    /\ \A k \in 2..Len(batch) : batch[k].id \notin throws
    /\ Len(Invoked) = MAX_BUFFER_SIZE

(* no object of the backend has been created: no processor, no reader and
   no tracer, logger or meter *)
NoBackend ==
    /\ ~spanProcessor /\ ~logProcessor /\ ~metricReader
    /\ ~tracer /\ ~logger /\ ~meter

(* C14: a flush() called while no backend object has been created, on an
   Initializing core, on a core whose initialization failed before it built
   anything, or on a core with a disabled configuration, resolves, asks no
   backend object for anything and leaves the buffer and the readiness
   state as they were. *)
FlushWithoutBackendIsNoop ==
    [][/\ (Flush /\ NoBackend) =>
             /\ inflight'[Len(inflight')].targets = {}
             /\ flushed' = flushed
             /\ applied' = applied
             /\ buffer' = buffer
             /\ Readiness' = Readiness
       /\ \A k \in 1..Len(inflight) :
             (/\ FlushSettles
              /\ inflight' = Without(inflight, k)
              /\ inflight[k].op = "flush"
              /\ inflight[k].targets = {}) =>
                 /\ flushResult' = "resolved"
                 /\ flushed' = flushed
                 /\ applied' = applied
                 /\ buffer' = buffer
                 /\ Readiness' = Readiness]_vars

(* a flush() has resolved on a core that is still Initializing and holds
   buffered calls, and nothing was asked of the backend *)
FlushWithoutBackendIsNoopWitness ==
    /\ impl = "Node"
    /\ initPc = "exporters"
    /\ NoBackend
    /\ flushResult = "resolved"
    /\ shutdownResult = "none"
    /\ Len(buffer) >= 2
    /\ flushed = {}

(* C15: a flush() of a Ready core requests a flush of every pipeline the
   core created: the span processor, the log processor and the metric
   reader. *)
FlushForcesEveryPipeline ==
    [][(Flush /\ Readiness = "Ready") =>
          {"span", "log", "metric"} \subseteq flushed']_vars

----------------------------------------------------------------------------
(* DiagnosticSpanExporter *)

IsInfo(l) == l.level = "info"
IsWarn(l) == l.level = "warn"
IsSuccess(r) == r.result.code = 0
IsFailure(r) == r.result.code # 0

(* C16: whatever the order in which the results of the exports arrive, the
   wrapper logs the success notice exactly once from the moment the first
   successful result has arrived, for that export's batch, and never
   again. *)
SuccessLoggedOnce ==
    LET infos == SelectSeq(diag.logs, IsInfo)
        succ == SelectSeq(diag.results, IsSuccess)
    IN  /\ diag.firstSuccessLogged <=> succ # <<>>
        /\ Len(infos) = IF succ = <<>> THEN 0 ELSE 1
        /\ succ # <<>> =>
              /\ infos[1].n = Len(diag.exports[succ[1].export].spans)
              /\ infos[1].via = diag.exporterType

(* three exports were made; the result of the last one arrived first and
   was a success, and further successes arrived after it *)
SuccessLoggedOnceWitness ==
    LET succ == SelectSeq(diag.results, IsSuccess)
    IN  /\ Len(succ) = MaxExports
        /\ succ[1].export = MaxExports
        /\ Len(diag.exports[MaxExports].spans) # Len(diag.exports[1].spans)

(* C17: the wrapper logs one warning for every failed export result, before
   and after the first success alike: the warnings are, in order, the
   errors of the failed results. *)
WarningPerFailure ==
    LET warns == SelectSeq(diag.logs, IsWarn)
        fails == SelectSeq(diag.results, IsFailure)
    IN  /\ Len(warns) = Len(fails)
        /\ \A k \in 1..Len(fails) : warns[k].error = errorText(fails[k].result)

(* a failure, then a success, then another failure *)
WarningPerFailureWitness ==
    /\ Len(diag.results) = 3
    /\ IsFailure(diag.results[1])
    /\ IsSuccess(diag.results[2])
    /\ IsFailure(diag.results[3])
    /\ diag.results[1].result.error # diag.results[3].result.error

(* C18: the wrapper is transparent: the inner exporter is handed the batch
   the wrapper was handed, each inner result is passed once and unchanged
   to the callback of its export, and shutdown and forceFlush are passed to
   the inner exporter and settle as the inner exporter's promise does. *)
WrapperTransparent ==
    /\ \A k \in 1..Len(diag.exports) : diag.exports[k].inner = diag.exports[k].spans
    /\ diag.callbacks = diag.results
    /\ diag.innerCalls =
          [k \in 1..Len(SelectSeq(diag.forwards, LAMBDA f : f.m \in diag.innerMethods)) |->
              SelectSeq(diag.forwards, LAMBDA f : f.m \in diag.innerMethods)[k].m]
    /\ \A k \in 1..Len(diag.forwards) :
          diag.forwards[k].m \in diag.innerMethods =>
              diag.forwards[k].returned = diag.forwards[k].inner

(* exports of different batches whose results, a failure among them,
   arrived out of order, and a shutdown and a forceFlush that reached the
   inner exporter, one of them rejecting *)
WrapperTransparentWitness ==
    /\ Len(diag.callbacks) = MaxExports
    /\ diag.callbacks[1].export # 1
    /\ \E k \in 1..Len(diag.callbacks) : IsFailure(diag.callbacks[k])
    /\ \E k \in 1..Len(diag.exports) : Len(diag.exports[k].inner) = 2
    /\ diag.innerCalls = <<"forceFlush", "shutdown">>
    /\ \E k \in 1..Len(diag.forwards) : diag.forwards[k].returned = "reject"

----------------------------------------------------------------------------
(* resolveOTelConfig *)

(* C19: with the host telemetry level "off" the resolved configuration has
   enabled = false and captureContent = false, whatever the environment
   and the settings say. *)
KillSwitch ==
    (resolved # <<>> /\ input.vscodeTelemetryLevel = Some("off")) =>
        /\ ~resolved[1].enabled
        /\ ~resolved[1].captureContent

(* resolved with the level "off" against COPILOT_OTEL_ENABLED=true, an
   enabling setting, an endpoint and content capture asked for *)
KillSwitchWitness ==
    /\ resolved # <<>>
    /\ input.vscodeTelemetryLevel = Some("off")
    /\ input.env.COPILOT_OTEL_ENABLED = Some("true")
    /\ input.settingEnabled = Some(TRUE)
    /\ TruthySeq(input.env.OTEL_EXPORTER_OTLP_ENDPOINT)
    /\ input.env.COPILOT_OTEL_CAPTURE_CONTENT = Some("true")

(* what the claim calls the override: COPILOT_OTEL_ENABLED read as a
   boolean, true for "true" and "1" and false for every other value *)
Override(in) ==
    IF in.env.COPILOT_OTEL_ENABLED = Undefined THEN Undefined
    ELSE Some(in.env.COPILOT_OTEL_ENABLED[1] \in {"true", "1"})

(* C20: with the kill switch not set, enabled is the override when
   COPILOT_OTEL_ENABLED is set, else the host setting when it is set, else
   true exactly when OTEL_EXPORTER_OTLP_ENDPOINT is present (set to a
   non-empty value); override false beats setting true, and with no input
   the configuration is disabled. *)
EnabledPrecedence ==
    (resolved # <<>> /\ input.vscodeTelemetryLevel # Some("off")) =>
        resolved[1].enabled =
            IF Override(input) # Undefined THEN Override(input)[1]
            ELSE IF input.settingEnabled # Undefined THEN input.settingEnabled[1]
            ELSE TruthySeq(input.env.OTEL_EXPORTER_OTLP_ENDPOINT)

(* resolved to disabled from override false, setting true and an endpoint *)
EnabledPrecedenceWitness ==
    /\ resolved # <<>>
    /\ input.vscodeTelemetryLevel = Some("all")
    /\ input.env.COPILOT_OTEL_ENABLED = Some("false")
    /\ input.settingEnabled = Some(TRUE)
    /\ TruthySeq(input.env.OTEL_EXPORTER_OTLP_ENDPOINT)
    /\ ~resolved[1].enabled

(* the protocol-appropriate form of a raw endpoint: its origin for grpc,
   origin and path for http, the built-in default when it is no URL *)
Normalized(raw, protocol) ==
    Coalesce(parseOtlpEndpoint(raw, protocol), Some(DefaultEndpoint))[1]

(* C21: layered precedence: the raw endpoint is COPILOT_OTEL_ENDPOINT, else
   OTEL_EXPORTER_OTLP_ENDPOINT, else the setting, else the default, and
   the protocol is taken from COPILOT_OTEL_PROTOCOL, else from
   OTEL_EXPORTER_OTLP_PROTOCOL. *)
LayeredPrecedence ==
    (resolved # <<>> /\ resolved[1].enabled) =>
        LET raw == Coalesce(input.env.COPILOT_OTEL_ENDPOINT,
                            Coalesce(input.env.OTEL_EXPORTER_OTLP_ENDPOINT,
                                     Coalesce(input.settingOtlpEndpoint, Some(DefaultEndpoint))))
            rawProtocol == Coalesce(input.env.COPILOT_OTEL_PROTOCOL,
                                    input.env.OTEL_EXPORTER_OTLP_PROTOCOL)
            protocol == IF rawProtocol = Some("grpc") THEN "grpc" ELSE "http"
        IN  /\ resolved[1].otlpProtocol = protocol
            /\ resolved[1].otlpEndpoint = Normalized(raw, protocol)

(* the raw endpoint resolveOTelConfig settles on *)
RawEndpoint ==
    Coalesce(input.env.COPILOT_OTEL_ENDPOINT,
             Coalesce(input.env.OTEL_EXPORTER_OTLP_ENDPOINT,
                      Coalesce(input.settingOtlpEndpoint, Some(DefaultEndpoint))))[1]

(* The parts of a raw endpoint that is written as a URL, read off the
   string: it starts with a scheme and a host, a port may follow (the
   default port of the scheme is not kept), and the rest is the path. *)
HasSchemeAndHost(raw) == Len(raw) >= 2 /\ raw[1] \in Schemes /\ raw[2] \in Hosts
PortOf(raw) ==
    SelectSeq(raw, LAMBDA t : t \in Ports /\ ~(raw[1] = "http://" /\ t = ":80"))
PathOf(raw) == SelectSeq(raw, LAMBDA t : t \in Paths)
SchemeHostPort(raw) == SubSeq(raw, 1, 2) \o PortOf(raw)

(* C22: for grpc the resolved endpoint is the scheme, host and port of the
   raw URL, its path discarded; for http it is the full URL with its path
   (the path "/" when the raw URL has none); a raw value that is no URL
   resolves to the default http://localhost:4318; a configuration is
   returned for every input.  A raw value without a scheme, such as
   host:port, is a URL or is none: for grpc it has no scheme, host and
   port to resolve to, so it resolves to the default; for http it
   resolves to itself or to the default. *)
EndpointNormalization ==
    (resolved # <<>> /\ resolved[1].enabled) =>
        LET raw == stripQuotes(RawEndpoint)
            endpoint == resolved[1].otlpEndpoint
        IN  IF HasSchemeAndHost(raw)
            THEN IF resolved[1].otlpProtocol = "grpc"
                 THEN endpoint = SchemeHostPort(raw)
                 ELSE endpoint = SchemeHostPort(raw)
                                    \o (IF PathOf(raw) = <<>> THEN <<"/">> ELSE PathOf(raw))
            ELSE IF resolved[1].otlpProtocol = "grpc"
                 THEN endpoint = DefaultEndpoint
                 ELSE endpoint \in {DefaultEndpoint, raw}

(* the file path supplied: COPILOT_OTEL_FILE_EXPORTER_PATH, else the
   outfile setting; an empty string is no path *)
SuppliedPath == Coalesce(input.env.COPILOT_OTEL_FILE_EXPORTER_PATH, input.settingOutfile)
PathSupplied == SuppliedPath # Undefined /\ SuppliedPath[1] # ""

(* C23: in an enabled configuration the exporter type is file whenever a
   file path is supplied, whatever the exporter-type setting and the
   protocol; without a file path it is the exporter-type setting if given,
   else otlp-grpc for protocol grpc and otlp-http for protocol http. *)
FilePathForcesFile ==
    (resolved # <<>> /\ resolved[1].enabled) =>
        resolved[1].exporterType =
            IF PathSupplied THEN "file"
            ELSE IF input.settingExporterType # Undefined THEN input.settingExporterType[1]
            ELSE IF resolved[1].otlpProtocol = "grpc" THEN "otlp-grpc"
            ELSE "otlp-http"

(* a path from the outfile setting made the exporter type file against an
   exporter-type setting of console and the protocol grpc *)
FilePathForcesFileWitness ==
    /\ resolved # <<>>
    /\ resolved[1].enabled
    /\ input.env.COPILOT_OTEL_FILE_EXPORTER_PATH = Undefined
    /\ input.settingOutfile = Some("/tmp/out.jsonl")
    /\ input.settingExporterType = Some("console")
    /\ resolved[1].otlpProtocol = "grpc"
    /\ resolved[1].exporterType = "file"
    /\ resolved[1].fileExporterPath = Some("/tmp/out.jsonl")

(* C24: captureContent is true exactly in an enabled configuration for
   which COPILOT_OTEL_CAPTURE_CONTENT is "true" or "1", or is unset with a
   captureContent setting of true; it is false in every other case, in
   every disabled configuration, and for an environment value of false
   against a setting of true. *)
CaptureContentOptIn ==
    resolved # <<>> =>
        LET env == input.env.COPILOT_OTEL_CAPTURE_CONTENT
        IN  resolved[1].captureContent <=>
                /\ resolved[1].enabled
                /\ \/ env \in {Some("true"), Some("1")}
                   \/ env = Undefined /\ input.settingCaptureContent = Some(TRUE)

(* an enabled configuration resolved without content capture from an
   environment value of false against a setting of true *)
CaptureContentOptInWitness ==
    /\ resolved # <<>>
    /\ resolved[1].enabled
    /\ input.env.COPILOT_OTEL_CAPTURE_CONTENT = Some("false")
    /\ input.settingCaptureContent = Some(TRUE)
    /\ ~resolved[1].captureContent

(* The pairs of a "key1=value1,key2=value2" string r, told by position:
   pair p of r lies between the separators Bounds(r)[p] and
   Bounds(r)[p + 1]. *)
Separators(r) == {0, Len(r) + 1} \cup {i \in 1..Len(r) : r[i] = ","}
PairStarts(r) == Separators(r) \ {Len(r) + 1}
PairEnd(r, a) == CHOOSE b \in Separators(r) :
                    b > a /\ \A c \in Separators(r) : c > a => b <= c
PairAt(r, a) == SubSeq(r, a + 1, PairEnd(r, a) - 1)
HasEq(pair) == \E i \in 1..Len(pair) : pair[i] = "="
FirstEq(pair) == CHOOSE i \in 1..Len(pair) :
                    pair[i] = "=" /\ \A j \in 1..(i - 1) : pair[j] # "="
KeyOf(pair) == trim(SubSeq(pair, 1, FirstEq(pair) - 1))
ValueOf(pair) == trim(SubSeq(pair, FirstEq(pair) + 1, Len(pair)))
WellFormed(pair) == HasEq(pair) /\ KeyOf(pair) # <<>>
WellFormedStarts(r) == {a \in PairStarts(r) : WellFormed(PairAt(r, a))}
LastWith(r, key) ==
    CHOOSE a \in WellFormedStarts(r) :
        /\ KeyOf(PairAt(r, a)) = key
        /\ \A b \in WellFormedStarts(r) : KeyOf(PairAt(r, b)) = key => b <= a
RawAttributes ==
    IF input.env.OTEL_RESOURCE_ATTRIBUTES = Undefined THEN <<>>
    ELSE input.env.OTEL_RESOURCE_ATTRIBUTES[1]

(* C25: the resolved resource attributes are exactly the well-formed pairs
   of the string: a pair without '=' or with an empty key is skipped and
   changes nothing else, and a key that occurs more than once has the
   value of its last occurrence. *)
ResourceAttributesParsed ==
    (resolved # <<>> /\ resolved[1].enabled) =>
        LET r == RawAttributes
            keys == {KeyOf(PairAt(r, a)) : a \in WellFormedStarts(r)}
        IN  resolved[1].resourceAttributes =
                [key \in keys |-> ValueOf(PairAt(r, LastWith(r, key)))]

(* the exporter kind a sink belongs to, by the module it is imported from
   and its class *)
SinkKind(sink) ==
    IF sink.module = "./fileExporters" THEN "file"
    ELSE IF sink.class \in {"ConsoleSpanExporter", "ConsoleLogRecordExporter",
                            "ConsoleMetricExporter"} THEN "console"
    ELSE IF sink.module \in {"@opentelemetry/exporter-trace-otlp-grpc",
                             "@opentelemetry/exporter-logs-otlp-grpc",
                             "@opentelemetry/exporter-metrics-otlp-grpc"} THEN "otlp-grpc"
    ELSE "otlp-http"

(* C26: the three sinks the exporter factory built are those of the
   configuration's exporter kind: file sinks for file, console sinks for
   console, gRPC sinks for otlp-grpc, HTTP sinks for otlp-http, and never
   the sinks of another kind. *)
SinksByKindAlone ==
    exporters # <<>> =>
        \A sink \in {exporters[1].spanExporter, exporters[1].logExporter,
                      exporters[1].metricExporter} :
            SinkKind(sink) = config.exporterType

(* C27: with a disabled configuration the exporter factory is never
   invoked and no backend module is ever loaded, whatever core operations
   are called, flush and shutdown included. *)
DisabledLoadsNothing ==
    ~config.enabled =>
        /\ initPc # "exporters" /\ exporters = <<>>
        /\ loaded = {}

(* JSON.parse of a line, for the texts a file of exported records can
   hold: <<>> when it throws a SyntaxError, else <<object>>, the object
   having a name or none.  Inside a string a control character and a bare
   quote are errors, and an escape is one of \" \\ \/ \b \f \n \r \t or
   \u00XX of a control character. *)
HexValue(d) == (CHOOSE i \in 1..16 : HexDigits[i] = d) - 1
RECURSIVE unescapeString(_)
unescapeString(str) ==
    LET isHex(d) == \E i \in 1..16 : HexDigits[i] = d
        short == [c \in {"\"", "\\", "/", "b", "f", "n", "r", "t"} |->
                     CASE c = "b" -> ControlChars[8] [] c = "f" -> "\f" [] c = "n" -> "\n"
                       [] c = "r" -> "\r" [] c = "t" -> "\t" [] OTHER -> c]
        then(c, rest) == IF rest = Undefined THEN Undefined ELSE Some(<<c>> \o rest[1])
    IN  IF str = <<>> THEN Some(<<>>)
        ELSE IF Head(str) = "\"" \/ \E i \in 1..31 : ControlChars[i] = Head(str) THEN Undefined
        ELSE IF Head(str) # "\\" THEN then(Head(str), unescapeString(Tail(str)))
        ELSE IF Len(str) >= 2 /\ str[2] \in DOMAIN short
        THEN then(short[str[2]], unescapeString(SubSeq(str, 3, Len(str))))
        ELSE IF /\ Len(str) >= 6 /\ str[2] = "u" /\ str[3] = "0" /\ str[4] = "0"
                /\ isHex(str[5]) /\ isHex(str[6])
                /\ 16 * HexValue(str[5]) + HexValue(str[6]) \in 1..31
        THEN then(ControlChars[16 * HexValue(str[5]) + HexValue(str[6])],
                  unescapeString(SubSeq(str, 7, Len(str))))
        ELSE Undefined

JSON_parse(text) ==
    IF text = <<"{", "}">> THEN Some([name |-> Undefined])
    ELSE IF /\ Len(text) >= 11
            /\ SubSeq(text, 1, 9) = <<"{", "\"", "n", "a", "m", "e", "\"", ":", "\"">>
            /\ SubSeq(text, Len(text) - 1, Len(text)) = <<"\"", "}">>
         THEN LET str == unescapeString(SubSeq(text, 10, Len(text) - 2))
              IN  IF str = Undefined THEN Undefined ELSE Some([name |-> str])
    ELSE Undefined

(* the lines of a text: content.trim().split('\n') *)
Lines(text) ==
    IF text = <<>> THEN <<>>
    ELSE IF text[Len(text)] = "\n" THEN split(SubSeq(text, 1, Len(text) - 1), "\n")
    ELSE split(text, "\n")

(* the export() calls of the span exporter, in call order *)
SpanExports == SelectSeq(fsink.exports, LAMBDA e : e.exporter = "span")

(* the span records of the export() calls, in call order and batch order *)
RECURSIVE ExportedRecords(_)
ExportedRecords(exports) ==
    IF exports = <<>> THEN <<>>
    ELSE Head(exports).spans \o ExportedRecords(Tail(exports))

(* what a record reads back as: its name, or the empty object that
   safeStringify writes for a record JSON.stringify cannot serialize *)
ReadBack(span) == [name |-> IF span.cyclic THEN Undefined ELSE Some(span.name)]

(* the lines the log exporter and the metric exporter write *)
OtherLines == {safeStringify(LogRecord), safeStringify(MetricRecord)}

AllExportsSucceeded ==
    \A k \in 1..Len(fsink.exports) : fsink.exports[k].code = "SUCCESS"

(* C28: after exports that all succeeded and a shutdown of the span
   exporter, the file holds the lines it held before, followed by one line
   per exported record; the lines of the span records come in export order
   and within an export in batch order, whatever the log exporter and the
   metric exporter wrote between them, and each line parses on its own,
   a line of a span record to its record. *)
FileRoundTrip ==
    (fsink.streams["span"].closed /\ AllExportsSucceeded) =>
        LET old == Lines(fsink.existing)
            lines == Lines(fsink.content)
            new == SubSeq(lines, Len(old) + 1, Len(lines))
            spanLines == SelectSeq(new, LAMBDA l : l \notin OtherLines)
            records == ExportedRecords(SpanExports)
        IN  /\ Len(lines) = Len(old) + Len(records) + Len(fsink.exports) - Len(SpanExports)
            /\ SubSeq(lines, 1, Len(old)) = old
            /\ \A k \in 1..Len(new) : JSON_parse(new[k]) # Undefined
            /\ Len(spanLines) = Len(records)
            /\ \A k \in 1..Len(records) :
                  /\ k <= Len(spanLines)
                  /\ JSON_parse(spanLines[k]) = Some(ReadBack(records[k]))

(* the file held a line; MaxWrites exports succeeded, among them one of
   the log or the metric exporter and one of two span records, one with a
   name that holds a quote, a line feed and a control character; the
   shutdown of the span exporter has resolved *)
FileRoundTripWitness ==
    /\ fsink.streams["span"].closed /\ AllExportsSucceeded
    /\ fsink.existing # <<>>
    /\ Len(fsink.exports) = MaxWrites
    /\ Len(SpanExports) < Len(fsink.exports)
    /\ \E k \in 1..Len(SpanExports) :
          /\ Len(SpanExports[k].spans) = 2
          /\ SpanExports[k].spans[2].name = <<"\"", "\n", ControlChars[1]>>

ContentAttributes ==
    {"gen_ai.input.messages", "gen_ai.system_instructions", "gen_ai.tool.definitions"}

(* two requests that differ at most in messages, systemMessage and tools *)
SameButContent(a, b) ==
    /\ a.request.model = b.request.model
    /\ a.request.temperature = b.request.temperature
    /\ a.request.maxTokens = b.request.maxTokens
    /\ a.response = b.response
    /\ a.error = b.error

(* a record never carries a content attribute unless config.captureContent
   is true, and with captureContent false two calls that differ only in
   the content emit the same *)
ContentGated ==
    /\ \A i \in 1..Len(events) : \A k \in 1..Len(events[i].records) :
          DOMAIN events[i].records[k].attributes \cap ContentAttributes # {}
              => config.captureContent
    /\ ~config.captureContent =>
          \A i, j \in 1..Len(events) :
              SameButContent(events[i], events[j]) => events[i].records = events[j].records

(* C29: every emitInferenceDetailsEvent call emits exactly one log record;
   the record carries content attributes (input messages, system
   instructions, tool definitions) only when config.captureContent is
   true, and with captureContent false two calls that differ only in
   messages, systemMessage or tools emit identical records. *)
InferenceDetailsGated ==
    /\ \A i \in 1..Len(events) : Len(events[i].records) = 1
    /\ ContentGated

(* the calls that reached span s after it was started, in order *)
OnSpan(evs, s) == SelectSeq(evs, LAMBDA e : e.span = s /\ e.ev # "startSpan")
IsBufferedHandle(h) == h \in 1..Len(handles) /\ handles[h].kind = "buffered"
Unbound(h) == IsBufferedHandle(h) /\ handles[h].real = 0
Bound(h) == IsBufferedHandle(h) /\ handles[h].real # 0

(* a bound handle stays bound to the same span, and only a step of the
   drain binds a handle *)
BoundAtMostOnce ==
    \A h \in 1..Len(handles) :
        /\ Bound(h) => handles'[h].real = handles[h].real
        /\ (Unbound(h) /\ handles'[h].real # 0) => (ConstructSucceeds \/ DrainResume)

(* what one application of the queued call o makes the span receive: one
   call, or for setAttributes one call per defined value *)
SpanCallsOf(o) ==
    IF o.op = "setAttributes"
    THEN [k \in 1..Len(SelectSeq(o.attrs, LAMBDA v : v # <<>>)) |-> <<o.id, o.op>>]
    ELSE << <<o.id, o.op>> >>
RECURSIVE OnceEachInOrder(_)
OnceEachInOrder(ops) ==
    IF ops = <<>> THEN <<>> ELSE SpanCallsOf(Head(ops)) \o OnceEachInOrder(Tail(ops))

(* the step that binds handle h applies the queue of h to the real span,
   once each and in the order of the calls, and leaves the queue empty *)
BindingReplaysQueue ==
    \A h \in 1..Len(handles) :
        (Unbound(h) /\ handles'[h].real # 0) =>
            /\ OnSpan(applied, handles'[h].real) = <<>>
            /\ [k \in 1..Len(OnSpan(applied', handles'[h].real)) |->
                    <<OnSpan(applied', handles'[h].real)[k].id,
                      OnSpan(applied', handles'[h].real)[k].ev>>]
                 = OnceEachInOrder(handles[h].ops)
            /\ handles'[h].ops = <<>>

(* a call on a bound handle reaches the real span at once and is not
   queued; a call on an unbound handle is queued and reaches nothing *)
CallsAfterBindingPassThrough ==
    HandleCall =>
        \A h \in 1..Len(handles) :
            /\ Bound(h) => handles'[h].ops = <<>>
            /\ (Bound(h) /\ handles'[h] = handles[h] /\ applied' # applied) =>
                  /\ Len(applied') > Len(applied)
                  /\ SubSeq(applied', 1, Len(applied)) = applied
                  /\ \A p \in (Len(applied) + 1)..Len(applied') :
                        applied'[p].id = clock + 1
            /\ (Unbound(h) /\ handles'[h] # handles[h]) =>
                  /\ applied' = applied
                  /\ handles'[h].ops = Append(handles[h].ops, handles'[h].ops[Len(handles'[h].ops)])
                  /\ handles'[h].ops[Len(handles'[h].ops)].id = clock + 1

(* C30: an Unbound span handle is bound at most once, during the drain; at
   binding every operation queued on it is applied to the real span
   exactly once and in the order it was called, and the queue is then
   empty; every call made after binding goes straight to the real span
   without being queued. *)
HandleBinding ==
    [][BoundAtMostOnce /\ BindingReplaysQueue /\ CallsAfterBindingPassThrough]_vars

(* the first chunk of a drain bound two handles, and the two calls queued
   on the first, of different methods, reached its span in call order
   between the two startSpan calls *)
HandleBindingWitness ==
    /\ Len(handles) >= 2 /\ Bound(1) /\ Bound(2)
    /\ Len(applied) >= 4
    /\ applied[1].ev = "startSpan" /\ applied[1].span = handles[1].real
    /\ applied[2].span = handles[1].real /\ applied[3].span = handles[1].real
    /\ applied[2].ev # applied[3].ev
    /\ applied[2].ev # "startSpan" /\ applied[3].ev # "startSpan"
    /\ applied[2].id < applied[3].id
    /\ applied[4].ev = "startSpan" /\ applied[4].span = handles[2].real
    /\ handles[1].ops = <<>>

(* C31: no buffered operation is invoked more than once: each queued call
   has reached the backend at most once, a step of the drain leaves the
   buffer empty (a replayed operation puts nothing back), and once the
   drain is over no queued call is invoked again. *)
InvokedAtMostOnce ==
    [][/\ \A p, q \in 1..Len(Invoked') : Invoked'[p].id = Invoked'[q].id => p = q
       /\ (ConstructSucceeds \/ DrainResume) => buffer' = <<>>
       /\ initPc = "done" => Invoked' = Invoked]_vars

(* a full buffer was drained in two chunks, every queued call was invoked,
   and a call issued after the drain has reached the backend *)
InvokedAtMostOnceWitness ==
    /\ initPc = "done"
    /\ Len(Invoked) = MAX_BUFFER_SIZE
    /\ Len(batch) = MAX_BUFFER_SIZE
    /\ Len(applied) > Len(Invoked)
    /\ \E k \in 1..Len(issued) : issued[k].pc = "done" /\ issued[k].outcome = "applied"

(* every closure that was in the buffer at readiness has been invoked, and
   every buffered handle is bound *)
DrainComplete ==
    /\ initPc = "done"
    /\ \A k \in 1..Len(batch) :
          \E p \in 1..Len(applied) :
              applied[p].id = batch[k].id /\ applied[p].ev = EvOf(batch[k].kind)
    /\ \A h \in 1..Len(handles) : handles[h].kind = "buffered" => handles[h].real # 0

(* C32: if initialization succeeds the drain terminates: with the yields
   between chunks scheduled fairly, every operation that was in the buffer
   at the moment of readiness is eventually invoked and every Unbound
   handle whose creation was buffered is eventually bound. *)
DrainTerminates == initialized ~> DrainComplete

(* a drain of a full buffer has ended after a yield, and the handle of a
   span of its last chunk is bound *)
DrainTerminatesWitness ==
    /\ DrainComplete
    /\ Len(batch) = MAX_BUFFER_SIZE /\ drainI > 0
    /\ \E h \in 1..Len(handles) :
          /\ handles[h].kind = "buffered"
          /\ \E k \in (drainI + 1)..Len(batch) : batch[k].h = h /\ batch[k].kind = "span"

(* the values of OTelConfig.logLevel *)
LogLevels == {"trace", "debug", "info", "warn", "error"}

(* C33: the resolved logLevel is always one of trace, debug, info, warn and
   error; a COPILOT_OTEL_LOG_LEVEL outside this set resolves to info. *)
LogLevelValid ==
    resolved # <<>> =>
        /\ resolved[1].logLevel \in LogLevels
        /\ (input.env.COPILOT_OTEL_LOG_LEVEL = Undefined
              \/ input.env.COPILOT_OTEL_LOG_LEVEL[1] \notin LogLevels)
              => resolved[1].logLevel = "info"

(* an endpoint in gRPC form: scheme, host and port, no path *)
OriginOnly(endpoint) == \A k \in 1..Len(endpoint) : endpoint[k] \notin Paths

(* C34: whenever the resolved exporter kind is otlp-grpc the resolved
   protocol is grpc and the endpoint is in gRPC form, and whenever it is
   otlp-http the protocol is http, also when the kind comes from the
   exporter-type setting. *)
KindAgreesWithProtocol ==
    (resolved # <<>> /\ resolved[1].enabled) =>
        /\ resolved[1].exporterType = "otlp-grpc" =>
              resolved[1].otlpProtocol = "grpc" /\ OriginOnly(resolved[1].otlpEndpoint)
        /\ resolved[1].exporterType = "otlp-http" => resolved[1].otlpProtocol = "http"

(* C35: every configuration resolveOTelConfig returns with exporter kind
   file has a non-empty fileExporterPath, also when the kind comes from an
   exporter-type setting of file and no path is supplied. *)
FileKindHasPath ==
    (resolved # <<>> /\ resolved[1].exporterType = "file") =>
        /\ resolved[1].fileExporterPath # Undefined
        /\ resolved[1].fileExporterPath[1] # ""

(* the operations queued inside the Unbound handles h..Len(handles) *)
RECURSIVE QueuedInHandles(_)
QueuedInHandles(h) ==
    IF h > Len(handles) THEN 0
    ELSE (IF handles[h].kind = "buffered" /\ handles[h].real = 0
          THEN Len(handles[h].ops) ELSE 0) + QueuedInHandles(h + 1)

(* C36: bounded memory before readiness: the deferred actions the core
   retains, those of the core buffer together with those queued inside the
   Unbound span handles, never number more than the fixed maximum. *)
DeferredActionsBounded ==
    ~tracer => Len(buffer) + QueuedInHandles(1) <= MAX_BUFFER_SIZE

(* shutdown() has resolved and _initialize is still awaiting its imports
   or its exporters *)
ShutDownWhileInitializing ==
    shutdownResult = "resolved" /\ initPc \in {"imports", "exporters"}

(* C37: shutdown is final also when it races with initialization: once
   shutdown() has resolved on a core that is still Initializing, the
   initialization that completes afterwards registers no provider and
   replays no buffered operation, so nothing reaches the backend. *)
ShutdownIsFinal ==
    [][ShutDownWhileInitializing =>
          /\ applied' = applied
          /\ ~tracer' /\ ~meter' /\ ~logger']_vars

(* the position in evs of the backend call made for the call id *)
PosOf(evs, id) == CHOOSE p \in 1..Len(evs) : evs[p].id = id
IsApplied(evs, id) == \E p \in 1..Len(evs) : evs[p].id = id
(* the buffer entry of the startSpan call that returned handle h *)
SpanEntryOf(h) == CHOOSE b \in 1..Len(buffer) : buffer[b].h = h

(* C38: replay keeps the order in which the calls were issued: when the
   replay binds an Unbound handle, a metric, counter or log call that was
   buffered after the handle's startSpan and before a call queued on the
   handle reaches the backend before that handle call does. *)
ReplayKeepsIssueOrder ==
    [][\A h \in 1..Len(handles) :
          (Unbound(h) /\ handles'[h].real # 0) =>
             \A k \in 1..Len(handles[h].ops), b \in 1..Len(buffer) :
                (/\ buffer[b].kind # "span"
                 /\ b > SpanEntryOf(h)
                 /\ buffer[b].id < handles[h].ops[k].id
                 /\ IsApplied(applied', handles[h].ops[k].id))
                => /\ IsApplied(applied', buffer[b].id)
                   /\ PosOf(applied', buffer[b].id)
                        < PosOf(applied', handles[h].ops[k].id)]_vars

(* the positions of _initialize at which the core is Ready (the drain and
   after it) or Failed *)
SettledPcs == {"yield", "done", "failed"}
LeftInitializing == initialized \/ initFailed

(* C39: once the core has left Initializing, for Ready or for Failed, the
   core buffer is empty, and no emission call issued from then on is
   enqueued. *)
BufferEmptyOnceSettled ==
    /\ LeftInitializing <=> initPc \in SettledPcs
    /\ LeftInitializing => buffer = <<>>
    /\ \A k \in 1..Len(issued) :
          issued[k].pc \in SettledPcs => issued[k].outcome # "queued"

(* calls were buffered, the drain has started and is between two chunks,
   and a call issued during the drain was applied at once *)
BufferEmptyOnceSettledWitness ==
    /\ initPc = "yield" /\ initialized
    /\ Len(batch) > BATCH_SIZE
    /\ buffer = <<>>
    /\ \E k \in 1..Len(issued) :
          issued[k].pc = "yield" /\ issued[k].outcome = "applied"

====
